---- MODULE Spec2Model ----
(***************************************************************************)
(* A model of the structured rendering core of code_generator:             *)
(*   - the formatter (ANSICodeFormatter, SourceFile, CppSourceFile),       *)
(*   - the element tree (CppLanguageElement, CppClass, CppClassScope,      *)
(*     CppVariable, CppArray, CppEnum, CppClass.CppMethod),                *)
(*   - the declaration / definition render passes.                         *)
(*                                                                         *)
(* Text is modelled by TLA+ strings, built with \o exactly where the       *)
(* source builds it with f-strings and " ".join.  A written line is the    *)
(* record [ind, txt, nl] of the three things ANSICodeFormatter.line puts   *)
(* together: the indent count, the text and whether the endline follows.   *)
(***************************************************************************)
EXTENDS Integers, Sequences, FiniteSets, TLC

VARIABLES
    out,      \* the sink: the sequence of lines written so far
    stack,    \* formatter session: the block views whose `with` body is running (innermost last)
    exc,      \* the exception that is propagating or was raised by the last operation ("none" if none)
    last,     \* the last operation performed, with what it acted on (a history record)
    elems,    \* the element objects: id -> record of properties and member collections
    adds      \* number of add_* calls made so far

vars == <<out, stack, exc, last, elems, adds>>

(***************************************************************************)
(* Python values                                                           *)
(***************************************************************************)
\* Python's None, where a string is expected
None == "<None>"

\* no element (ref_to_parent is None)
NoElem == 0

\* str(x) as an f-string renders it: None becomes the text "None"
Str(x) == IF x = None THEN "None" ELSE x

\* truthiness of a string-or-None value
Truthy(x) == x # None /\ x # ""

\* " ".join(d for d in declarators if d)
RECURSIVE JoinNonEmpty(_)
JoinNonEmpty(ds) ==
    IF ds = <<>> THEN ""
    ELSE LET rest == JoinNonEmpty(Tail(ds))
         IN  IF Head(ds) = "" THEN rest
             ELSE IF rest = "" THEN Head(ds)
             ELSE Head(ds) \o " " \o rest

\* sep.join(items)
RECURSIVE Join(_, _)
Join(sep, items) ==
    IF items = <<>> THEN ""
    ELSE IF Len(items) = 1 THEN items[1]
    ELSE items[1] \o sep \o Join(sep, Tail(items))

(***************************************************************************)
(* Results of a call that writes: the lines it wrote and how it ended      *)
(***************************************************************************)
Ok(lines) == [out |-> lines, err |-> "none"]

Fail(e) == [out |-> <<>>, err |-> e]

\* sequential composition: b runs only if a returned normally
Then(a, b) == IF a.err # "none" THEN a ELSE [out |-> a.out \o b.out, err |-> b.err]

\* a line of the sink, stamped with the element that wrote it and its role
Stamp(lines, el, role) ==
    [i \in 1..Len(lines) |->
        [ind |-> lines[i].ind, txt |-> lines[i].txt, nl |-> lines[i].nl,
         el |-> el, role |-> role]]

(***************************************************************************)
(* code_formatter.py                                                       *)
(***************************************************************************)
\* CodeLayout.default_postfix
default_postfix == ""

\* ANSICodeFormatter.__init__: indent is <<>> for None, <<n>> otherwise
ANSI_init_postfix(postfix) ==
    \* postfix is None and self.code_layout.postfix or postfix
    IF postfix = None
    THEN (IF Truthy(default_postfix) THEN default_postfix ELSE postfix)
    ELSE postfix

ANSI_init(text, indent, endline, postfix) ==
    [kind         |-> "view",
     indent_level |-> IF indent = <<>> THEN 0 ELSE indent[1],
     text         |-> text,
     endline      |-> endline,
     postfix      |-> ANSI_init_postfix(postfix)]

\* ANSICodeFormatter.line
ANSI_line(self, text, indent, endline) ==
    <<[ind |-> IF indent = <<>> THEN self.indent_level ELSE indent[1],
       txt |-> Str(text),
       nl  |-> endline]>>

\* ANSICodeFormatter.__enter__: the lines written and the view afterwards
ANSI_enter_lines(self) ==
    IF self.endline
    THEN ANSI_line(self, self.text, <<>>, self.endline) \o ANSI_line(self, "{", <<>>, TRUE)
    ELSE ANSI_line(self, (IF Truthy(self.text) THEN self.text \o " " ELSE "") \o "{", <<>>, TRUE)

ANSI_enter(self) == [self EXCEPT !.indent_level = @ + 1]

\* ANSICodeFormatter.__exit__: the level is lowered first, then "}" + postfix is
\* built (a TypeError when postfix is None) and written
ANSI_exit_view(self) == [self EXCEPT !.indent_level = @ - 1]

ANSI_exit(self) ==
    IF self.postfix = None
    THEN Fail("TypeError")
    ELSE Ok(ANSI_line(ANSI_exit_view(self), "}" \o self.postfix, <<>>, TRUE))

\* ANSICodeFormatter.block
ANSI_block(self, text, endline, postfix) ==
    ANSI_init(text, <<self.indent_level>>, endline, postfix)

\* label that writes two levels shallower than the current level
ANSI_label_two_shallower(self, text) ==
    ANSI_line(self, text \o ":", <<self.indent_level - 2>>, TRUE)

\* ANSICodeFormatter.label
ANSI_label(self, text) == ANSI_line(self, text \o ":", <<self.indent_level - 1>>, TRUE)

\* ANSICodeFormatter.newline, n = 1
ANSI_newline(self) == ANSI_line(self, "", <<0>>, TRUE)

(***************************************************************************)
(* core/source_file.py, cpp/source_file.py                                 *)
(***************************************************************************)
\* the handle of the source file itself
TheFile == [kind |-> "file", indent_level |-> 0, text |-> None, endline |-> TRUE, postfix |-> ""]

\* SourceFile.write / __call__: a fresh formatter on the sink, line(text, indent, endline)
SourceFile_write(text, indent, endline) ==
    ANSI_line(ANSI_init(None, <<>>, TRUE, None), text, <<indent>>, endline)

\* SourceFile.block
SourceFile_block(text, endline, postfix) ==
    ANSI_init(text, <<>>, endline,
              IF postfix = None THEN default_postfix ELSE postfix)

\* CppSourceFile.label
CppSourceFile_label(text) == SourceFile_write(text \o ":", 0, TRUE)

\* SourceFile.newline, n = 1
SourceFile_newline == SourceFile_write("", 0, TRUE)

(***************************************************************************)
(* The handle `cpp` an element renders into is a source file or a view     *)
(***************************************************************************)
Cpp_call(cpp, text) ==
    IF cpp.kind = "file" THEN SourceFile_write(text, 0, TRUE)
    ELSE ANSI_line(cpp, text, <<>>, TRUE)

Cpp_block(cpp, text, endline, postfix) ==
    IF cpp.kind = "file" THEN SourceFile_block(text, endline, postfix)
    ELSE ANSI_block(cpp, text, endline, postfix)

Cpp_label(cpp, text) ==
    IF cpp.kind = "file" THEN CppSourceFile_label(text) ELSE ANSI_label(cpp, text)

Cpp_newline(cpp) ==
    IF cpp.kind = "file" THEN SourceFile_newline ELSE ANSI_newline(cpp)

(***************************************************************************)
(* Element objects: one record per object, holding the attributes its      *)
(* class sets in __init__ (and, for a method, the is_method attribute that *)
(* add_method sets).                                                       *)
(***************************************************************************)
\* CppClass.__init__
CppClass(name, is_struct) ==
    [kind |-> "class", name |-> name, ref_to_parent |-> NoElem, documentation |-> None,
     is_struct |-> is_struct, parent_class |-> None,
     internal_class_elements |-> <<>>, variable_members |-> <<>>, array_members |-> <<>>,
     methods |-> <<>>, scoped_enums |-> <<>>]

\* CppClassScope.__init__
CppClassScope(scope) ==
    [kind |-> "scope", name |-> None, ref_to_parent |-> NoElem, documentation |-> None,
     scope |-> scope,
     internal_class_elements |-> <<>>, variable_members |-> <<>>, array_members |-> <<>>,
     methods |-> <<>>, scoped_enums |-> <<>>, internal_scopes |-> <<>>]

\* CppVariable.__init__
CppVariable(name, type, is_static, is_const, is_constexpr, is_extern, value) ==
    [kind |-> "var", name |-> name, ref_to_parent |-> NoElem, documentation |-> None,
     type |-> type, is_static |-> is_static, is_extern |-> is_extern, is_const |-> is_const,
     is_constexpr |-> is_constexpr, is_class_member |-> FALSE, value |-> value]

\* CppArray.__init__
CppArray(name, type, is_static, is_const, newline_align, items) ==
    [kind |-> "array", name |-> name, ref_to_parent |-> NoElem,
     type |-> type, is_static |-> is_static, is_const |-> is_const,
     is_class_member |-> FALSE, array_size |-> 0, newline_align |-> newline_align,
     items |-> items]

\* CppEnum.__init__
CppEnum(name, enum_items) ==
    [kind |-> "enum", name |-> name, ref_to_parent |-> NoElem,
     prefix |-> None, is_enum_class |-> FALSE, add_counter |-> TRUE,
     enum_items |-> enum_items]

\* CppClass.CppMethod.__init__: implementation is None, "writes" (a callback
\* that writes one statement) or "raises" (a callback that raises)
CppMethod(name, ret_type, implementation) ==
    [kind |-> "method", name |-> name, ref_to_parent |-> NoElem, documentation |-> None,
     ret_type |-> ret_type, is_static |-> FALSE, is_constexpr |-> FALSE,
     is_virtual |-> FALSE, is_inline |-> FALSE, is_pure_virtual |-> FALSE,
     is_const |-> FALSE, is_override |-> FALSE, is_final |-> FALSE, arguments |-> <<>>,
     implementation |-> implementation, is_method |-> FALSE]

IsContainer(e) == e.kind \in {"class", "scope"}

(***************************************************************************)
(* language_element.py: qualified names                                    *)
(***************************************************************************)
\* CppLanguageElement.parent_qualifier: the while loop, from `parent` upwards,
\* prepending each named ancestor to the qualifier built so far
RECURSIVE parent_qualifier_loop(_, _, _)
parent_qualifier_loop_swapped(els, parent, full_parent_qualifier) ==
    IF parent = NoElem THEN full_parent_qualifier
    ELSE parent_qualifier_loop(
            els, els[parent].ref_to_parent,
            IF els[parent].name # None
            THEN full_parent_qualifier \o els[parent].name \o "::"
            ELSE full_parent_qualifier)

parent_qualifier_loop(els, parent, full_parent_qualifier) ==
    IF parent = NoElem THEN full_parent_qualifier
    ELSE parent_qualifier_loop(
            els, els[parent].ref_to_parent,
            IF els[parent].name # None
            THEN els[parent].name \o "::" \o full_parent_qualifier
            ELSE full_parent_qualifier)

parent_qualifier(els, self) == parent_qualifier_loop(els, els[self].ref_to_parent, "")

\* one iteration of the while loop of parent_qualifier: the locals afterwards
parent_qualifier_iteration_stays(els, parent, full_parent_qualifier) ==
    [parent |-> parent,
     full_parent_qualifier |->
        IF els[parent].name # None
        THEN els[parent].name \o "::" \o full_parent_qualifier
        ELSE full_parent_qualifier]

parent_qualifier_iteration(els, parent, full_parent_qualifier) ==
    [parent |-> els[parent].ref_to_parent,
     full_parent_qualifier |->
        IF els[parent].name # None
        THEN els[parent].name \o "::" \o full_parent_qualifier
        ELSE full_parent_qualifier]

\* CppLanguageElement.fully_qualified_name
fully_qualified_name(els, self) == parent_qualifier(els, self) \o Str(els[self].name)

\* CppLanguageElement.scoped_name
scoped_name(els, self, local_scope) ==
    IF local_scope THEN els[self].name ELSE fully_qualified_name(els, self)

(***************************************************************************)
(* The add_* operations of CppClass and CppClassScope: the element tree    *)
(* after the call                                                          *)
(***************************************************************************)
add_enum(els, self, enum) ==
    [els EXCEPT ![enum].ref_to_parent = self,
                ![self].scoped_enums = Append(@, enum)]

add_variable_unowned(els, self, cpp_variable) ==
    [els EXCEPT ![cpp_variable].is_class_member = TRUE,
                ![self].variable_members = Append(@, cpp_variable)]

add_variable(els, self, cpp_variable) ==
    [els EXCEPT ![cpp_variable].ref_to_parent = self,
                ![cpp_variable].is_class_member = TRUE,
                ![self].variable_members = Append(@, cpp_variable)]

add_array(els, self, cpp_variable) ==
    [els EXCEPT ![cpp_variable].ref_to_parent = self,
                ![cpp_variable].is_class_member = TRUE,
                ![self].array_members = Append(@, cpp_variable)]

add_internal_class(els, self, cpp_class) ==
    [els EXCEPT ![cpp_class].ref_to_parent = self,
                ![self].internal_class_elements = Append(@, cpp_class)]

add_method(els, self, method) ==
    [els EXCEPT ![method].ref_to_parent = self,
                ![method].is_method = TRUE,
                ![self].methods = Append(@, method)]

\* CppClassScope.add_internal_scope (CppClass has no such method)
add_internal_scope(els, self, cpp_scope) ==
    [els EXCEPT ![cpp_scope].ref_to_parent = self,
                ![self].internal_scopes = Append(@, cpp_scope)]

(***************************************************************************)
(* Rendering helpers                                                       *)
(***************************************************************************)
\* all of the results in order, stopping at the first that failed
RECURSIVE ThenAll(_)
ThenAll(rs) == IF rs = <<>> THEN Ok(<<>>) ELSE Then(rs[1], ThenAll(Tail(rs)))

\* textwrap.dedent: the documentation strings of the model carry no common
\* leading whitespace, which is all dedent removes
Dedent(text) == text

\* if self.documentation: cpp(dedent(self.documentation))
RenderDoc(e, self, cpp) ==
    IF Truthy(e.documentation)
    THEN Ok(Stamp(Cpp_call(cpp, Dedent(e.documentation)), self, "doc"))
    ELSE Ok(<<>>)

\* cpp.newline()
RenderNewline(self, cpp) == Ok(Stamp(Cpp_newline(cpp), self, "blank"))

\* with cpp.block(text, endline, postfix) [as block]: body
\* `view` is the view block() returned, `body` the result of the body (which
\* wrote through cpp, or through the entered view): __enter__ writes the
\* opening, the body runs, __exit__ runs however the body ended, and an
\* exception of __exit__ replaces the one of the body.
WithBlock(view, body, self) ==
    LET head   == ANSI_enter_lines(view)
        closed == ANSI_exit(ANSI_enter(view))
    IN  [out |-> Stamp(SubSeq(head, 1, Len(head) - 1), self, "open")
                 \o Stamp(SubSeq(head, Len(head), Len(head)), self, "brace")
                 \o body.out
                 \o Stamp(closed.out, self, "close"),
         err |-> IF closed.err # "none" THEN closed.err ELSE body.err]

(***************************************************************************)
(* variable_generator.py                                                   *)
(***************************************************************************)
Kw(flag, word) == IF flag THEN word ELSE ""

\* CppVariable._init_value
Var_init_value(v) == IF Truthy(v.value) THEN v.value ELSE ""

\* CppVariable.assignment
Var_assignment_bare(v, value) == Str(v.name)

Var_assignment(v, value) == Str(v.name) \o " = " \o value

\* CppVariable._sanity_check: the error it raises, "none" if it passes
Var_sanity_check(v) ==
    IF v.is_const /\ v.is_constexpr THEN "ValueError"
    ELSE IF v.is_constexpr /\ ~Truthy(v.value) THEN "ValueError"
    ELSE IF v.is_static /\ v.is_extern THEN "ValueError"
    ELSE "none"

\* the guard of CppVariable.render_to_string on class members
Var_render_allowed_constexpr(v) ==
    ~(v.is_class_member /\ ~((v.is_static /\ v.is_const) \/ v.is_constexpr))

Var_render_allowed(v) == ~(v.is_class_member /\ ~(v.is_static /\ v.is_const))

\* CppVariable.render_to_string
Var_render_to_string(els, self, cpp) ==
    LET v == els[self]
    IN  IF Var_sanity_check(v) # "none" THEN Fail(Var_sanity_check(v))
        ELSE IF ~Var_render_allowed(v) THEN Fail("RuntimeError")
        ELSE IF v.is_extern
        THEN Ok(Stamp(Cpp_call(cpp, JoinNonEmpty(<<Kw(v.is_extern, "extern"), Str(v.type),
                                                   Str(v.name) \o ";">>)), self, "stmt"))
        ELSE Then(RenderDoc(v, self, cpp),
                  Ok(Stamp(Cpp_call(cpp, JoinNonEmpty(
                        <<Kw(v.is_static, "static"), Kw(v.is_const, "const"),
                          Kw(v.is_constexpr, "constexpr"), Str(v.type),
                          Var_assignment(v, Var_init_value(v)) \o ";">>)), self, "stmt")))

\* CppVariable.render_to_string_declaration
Var_render_to_string_declaration(els, self, cpp) ==
    LET v == els[self]
    IN  IF ~v.is_class_member THEN Fail("RuntimeError")
        ELSE Then(RenderDoc(v, self, cpp),
                  Ok(Stamp(Cpp_call(cpp, JoinNonEmpty(
                        <<Kw(v.is_static, "static"), Kw(v.is_extern, "extern"),
                          Kw(v.is_const, "const"), Kw(v.is_constexpr, "constexpr"),
                          Str(v.type),
                          (IF ~v.is_constexpr THEN Str(v.name)
                           ELSE Var_assignment(v, Var_init_value(v))) \o ";">>)),
                        self, "decl")))

\* the declarators of the definition of a static class member
Var_definition_declarators_unqualified(els, self) ==
    LET v == els[self]
    IN  <<Kw(v.is_static, "static"), Kw(v.is_const, "const"),
          Kw(v.is_constexpr, "constexpr"), Str(v.type),
          Str(v.name) \o " = " \o Var_init_value(v) \o ";">>

Var_definition_declarators(els, self) ==
    LET v == els[self]
    IN  <<Kw(v.is_static, "static"), Kw(v.is_const, "const"),
          Kw(v.is_constexpr, "constexpr"), Str(v.type),
          fully_qualified_name(els, self) \o " = " \o Var_init_value(v) \o ";">>

\* CppVariable.render_to_string_implementation
Var_render_to_string_implementation(els, self, cpp) ==
    LET v == els[self]
    IN  IF ~v.is_class_member THEN Fail("RuntimeError")
        ELSE IF ~v.is_constexpr
        THEN IF v.is_static
             THEN Ok(Stamp(Cpp_call(cpp, JoinNonEmpty(Var_definition_declarators(els, self))),
                           self, "def"))
             ELSE Ok(Stamp(Cpp_call(cpp, Str(v.name) \o "(" \o Var_init_value(v) \o ")"),
                           self, "def"))
        ELSE Ok(<<>>)

(***************************************************************************)
(* array_generator.py                                                      *)
(***************************************************************************)
\* CppArray._sanity_check
Array_sanity_check_type_only(a) ==
    IF ~Truthy(a.type) THEN "RuntimeError" ELSE "none"

Array_sanity_check(a) ==
    IF ~Truthy(a.type) THEN "RuntimeError"
    ELSE IF ~Truthy(a.name) THEN "RuntimeError"
    ELSE "none"

\* CppArray._modifiers
Array_modifiers(a) == JoinNonEmpty(<<Kw(a.is_static, "static"), Kw(a.is_const, "const")>>)

\* CppArray._size
Array_size(a) == IF a.array_size # 0 THEN ToString(a.array_size) ELSE ""

\* CppArray.decl_to_string
Array_decl_to_string(a) ==
    JoinNonEmpty(<<Array_modifiers(a), Str(a.type),
                   Str(a.name) \o "[" \o Array_size(a) \o "]">>)

\* CppArray.full_decl_to_string
Array_full_decl_to_string(els, self) ==
    JoinNonEmpty(<<Array_modifiers(els[self]), Str(els[self].type),
                   fully_qualified_name(els, self) \o "[" \o Array_size(els[self]) \o "]">>)

\* CppArray._content
Array_content(a) == IF a.items # <<>> THEN Join(", ", a.items) ELSE "nullptr"

\* CppArray._render_value, into the block view
Array_render_value_all_commas(a, self, block) ==
    IF a.items = <<>> THEN Fail("RuntimeError")
    ELSE Ok(Stamp([i \in 1..Len(a.items) |-> Cpp_call(block, a.items[i] \o ",")[1]],
                  self, "item"))

Array_render_value(a, self, block) ==
    IF a.items = <<>> THEN Fail("RuntimeError")
    ELSE Ok(Stamp([i \in 1..Len(a.items) |->
                      Cpp_call(block, IF i < Len(a.items) THEN a.items[i] \o ","
                                      ELSE a.items[i])[1]],
                  self, "item"))

\* the tail shared by render_to_string and render_to_string_implementation
Array_render_body(a, self, cpp, decl) ==
    IF a.newline_align /\ a.items # <<>>
    THEN LET view == Cpp_block(cpp, decl \o " =", FALSE, ";")
         IN  WithBlock(view, Array_render_value(a, self, ANSI_enter(view)), self)
    ELSE Ok(Stamp(Cpp_call(cpp, decl \o " = {" \o Array_content(a) \o "};"), self, "def"))

\* CppArray.render_to_string
Array_render_to_string(els, self, cpp) ==
    LET a == els[self]
    IN  IF Array_sanity_check(a) # "none" THEN Fail(Array_sanity_check(a))
        ELSE IF a.is_class_member /\ ~(a.is_static /\ a.is_const) THEN Fail("RuntimeError")
        ELSE Array_render_body(a, self, cpp, Array_decl_to_string(a))

\* CppArray.render_to_string_declaration
Array_render_to_string_declaration(els, self, cpp) ==
    LET a == els[self]
    IN  IF Array_sanity_check(a) # "none" THEN Fail(Array_sanity_check(a))
        ELSE IF ~a.is_class_member THEN Fail("RuntimeError")
        ELSE Ok(Stamp(Cpp_call(cpp, Array_decl_to_string(a) \o ";"), self, "decl"))

\* CppArray.render_to_string_implementation
Array_render_to_string_implementation(els, self, cpp) ==
    LET a == els[self]
    IN  IF Array_sanity_check(a) # "none" THEN Fail(Array_sanity_check(a))
        ELSE IF ~a.is_class_member THEN Fail("RuntimeError")
        ELSE IF ~a.is_static THEN Fail("RuntimeError")
        ELSE Array_render_body(a, self, cpp, Array_full_decl_to_string(els, self))

(***************************************************************************)
(* enum_generator.py                                                       *)
(***************************************************************************)
\* CppEnum.short_header_declaration_to_string
Enum_header(e) == JoinNonEmpty(<<"enum", Kw(e.is_enum_class, "class"), Str(e.name)>>)

\* CppEnum.render_to_string
Enum_render_to_string_from_one(els, self, cpp) ==
    LET e            == els[self]
        final_prefix == IF e.prefix # None THEN e.prefix ELSE "e"
        view         == Cpp_block(cpp, Enum_header(e), FALSE, ";")
        block        == ANSI_enter(view)
        itemLines    == [i \in 1..Len(e.enum_items) |->
                            Cpp_call(block, final_prefix \o e.enum_items[i] \o " = "
                                            \o ToString(i) \o ",")[1]]
        counterLine  == IF e.add_counter
                        THEN Cpp_call(block, final_prefix \o Str(e.name) \o "Count = "
                                             \o ToString(Len(e.enum_items) + 1))
                        ELSE <<>>
    IN  WithBlock(view, Ok(Stamp(itemLines \o counterLine, self, "item")), self)

Enum_render_to_string(els, self, cpp) ==
    LET e            == els[self]
        final_prefix == IF e.prefix # None THEN e.prefix ELSE "e"
        view         == Cpp_block(cpp, Enum_header(e), FALSE, ";")
        block        == ANSI_enter(view)
        itemLines    == [i \in 1..Len(e.enum_items) |->
                            Cpp_call(block, final_prefix \o e.enum_items[i] \o " = "
                                            \o ToString(i - 1) \o ",")[1]]
        counterLine  == IF e.add_counter
                        THEN Cpp_call(block, final_prefix \o Str(e.name) \o "Count = "
                                             \o ToString(Len(e.enum_items)))
                        ELSE <<>>
    IN  WithBlock(view, Ok(Stamp(itemLines \o counterLine, self, "item")), self)

(***************************************************************************)
(* class_generator.py: CppClass.CppMethod                                  *)
(***************************************************************************)
\* CppMethod._sanity_check: the error it raises, "none" if it passes
Method_sanity_check_final_unchecked(m) ==
    IF m.is_inline /\ (m.is_virtual \/ m.is_pure_virtual) THEN "ValueError"
    ELSE IF m.is_constexpr /\ (m.is_virtual \/ m.is_pure_virtual) THEN "ValueError"
    ELSE IF m.is_const /\ m.is_static THEN "ValueError"
    ELSE IF m.is_const /\ m.is_virtual THEN "ValueError"
    ELSE IF m.is_const /\ m.is_pure_virtual THEN "ValueError"
    ELSE IF m.is_override /\ ~m.is_virtual THEN "ValueError"
    ELSE IF m.is_static /\ m.is_virtual THEN "ValueError"
    ELSE IF m.is_pure_virtual /\ ~m.is_virtual THEN "ValueError"
    ELSE IF m.ref_to_parent = NoElem THEN "ValueError"
    ELSE IF m.is_constexpr /\ m.implementation = None THEN "ValueError"
    ELSE IF m.is_pure_virtual /\ m.implementation # None THEN "ValueError"
    ELSE "none"

Method_sanity_check(m) ==
    IF m.is_inline /\ (m.is_virtual \/ m.is_pure_virtual) THEN "ValueError"
    ELSE IF m.is_constexpr /\ (m.is_virtual \/ m.is_pure_virtual) THEN "ValueError"
    ELSE IF m.is_const /\ m.is_static THEN "ValueError"
    ELSE IF m.is_const /\ m.is_virtual THEN "ValueError"
    ELSE IF m.is_const /\ m.is_pure_virtual THEN "ValueError"
    ELSE IF m.is_override /\ ~m.is_virtual THEN "ValueError"
    ELSE IF m.is_inline /\ (m.is_virtual \/ m.is_pure_virtual) THEN "ValueError"
    ELSE IF m.is_final /\ ~m.is_virtual THEN "ValueError"
    ELSE IF m.is_static /\ m.is_virtual THEN "ValueError"
    ELSE IF m.is_pure_virtual /\ ~m.is_virtual THEN "ValueError"
    ELSE IF m.ref_to_parent = NoElem THEN "ValueError"
    ELSE IF m.is_constexpr /\ m.implementation = None THEN "ValueError"
    ELSE IF m.is_pure_virtual /\ m.implementation # None THEN "ValueError"
    ELSE "none"

\* CppMethod._modifiers_front
Method_modifiers_front(m) ==
    JoinNonEmpty(<<Kw(m.is_constexpr, "constexpr"), Kw(m.is_virtual, "virtual"),
                   Kw(m.is_inline, "inline")>>)

\* CppMethod._modifiers_back
Method_modifiers_back(m) ==
    JoinNonEmpty(<<Kw(m.is_const, "const"), Kw(m.is_override, "override"),
                   Kw(m.is_final, "final")>>)

\* CppMethod._ret_type
Method_ret_type(m) == IF Truthy(m.ret_type) THEN m.ret_type ELSE ""

\* CppMethod.args
Method_args(m) == Join(", ", m.arguments)

\* CppMethod._pure
Method_pure(m) == IF m.is_pure_virtual THEN " = 0" ELSE ""

\* self.implementation(cpp): the caller's body callback, run on the handle cpp
Method_call_implementation(m, self, cpp) ==
    IF m.implementation = None THEN Fail("TypeError")
    ELSE IF m.implementation = "raises" THEN Fail("BodyError")
    ELSE Ok(Stamp(Cpp_call(cpp, "return m_var;"), self, "body"))

\* CppMethod.render_to_string
Method_render_to_string(els, self, cpp) ==
    LET m == els[self]
    IN  IF Method_sanity_check(m) # "none" THEN Fail(Method_sanity_check(m))
        ELSE Then(RenderDoc(m, self, cpp),
                  WithBlock(Cpp_block(cpp,
                                Kw(m.is_static, "static") \o Method_modifiers_front(m)
                                \o Method_ret_type(m) \o " " \o fully_qualified_name(els, self)
                                \o "(" \o Method_args(m) \o ")" \o Method_modifiers_back(m)
                                \o Method_pure(m),
                                TRUE, None),
                            Method_call_implementation(m, self, cpp), self))

\* CppMethod.render_to_string_declaration
Method_render_to_string_declaration(els, self, cpp) ==
    LET m == els[self]
    IN  IF Method_sanity_check(m) # "none" THEN Fail(Method_sanity_check(m))
        ELSE IF m.is_constexpr
        THEN Then(RenderDoc(m, self, cpp), Method_render_to_string(els, self, cpp))
        ELSE Ok(Stamp(Cpp_call(cpp,
                        Kw(m.is_static, "static") \o Method_modifiers_front(m) \o " "
                        \o Method_ret_type(m) \o " " \o Str(m.name)
                        \o "(" \o Method_args(m) \o ")" \o Method_modifiers_back(m)
                        \o Method_pure(m) \o ";"), self, "decl"))

\* CppMethod.render_to_string_implementation
Method_render_to_string_implementation(els, self, cpp) ==
    LET m == els[self]
    IN  IF Method_sanity_check(m) # "none" THEN Fail(Method_sanity_check(m))
        ELSE IF m.implementation = None THEN Fail("RuntimeError")
        ELSE IF m.is_pure_virtual THEN Fail("RuntimeError")
        ELSE Then(IF ~m.is_constexpr THEN RenderDoc(m, self, cpp) ELSE Ok(<<>>),
                  WithBlock(Cpp_block(cpp,
                                Method_modifiers_front(m) \o Method_ret_type(m) \o " "
                                \o fully_qualified_name(els, self)
                                \o "(" \o Method_args(m) \o ")" \o Method_modifiers_back(m),
                                TRUE, None),
                            Method_call_implementation(m, self, cpp), self))

(***************************************************************************)
(* Dispatch of a member's render call on the class of the member           *)
(***************************************************************************)
RECURSIVE Class_render_to_string_declaration(_, _, _)
RECURSIVE Class_render_static_members_implementation(_, _, _)
RECURSIVE Scope_render_to_string_declaration(_, _, _)
RECURSIVE Scope_render_to_string_implementation(_, _, _)
RECURSIVE Class_render_to_string_implementation(_, _, _)

\* element.declaration().render_to_string(cpp) / element.render_to_string_declaration(cpp)
RenderDeclarationOf(els, x, cpp) ==
    CASE els[x].kind = "class"  -> Class_render_to_string_declaration(els, x, cpp)
      [] els[x].kind = "scope"  -> Scope_render_to_string_declaration(els, x, cpp)
      [] els[x].kind = "var"    -> Var_render_to_string_declaration(els, x, cpp)
      [] els[x].kind = "array"  -> Array_render_to_string_declaration(els, x, cpp)
      [] els[x].kind = "method" -> Method_render_to_string_declaration(els, x, cpp)
      [] OTHER                  -> Fail("NotImplementedError")

\* element.definition().render_to_string(cpp) / element.render_to_string_implementation(cpp)
RenderImplementationOf(els, x, cpp) ==
    CASE els[x].kind = "class"  -> Class_render_to_string_implementation(els, x, cpp)
      [] els[x].kind = "scope"  -> Scope_render_to_string_implementation(els, x, cpp)
      [] els[x].kind = "var"    -> Var_render_to_string_implementation(els, x, cpp)
      [] els[x].kind = "array"  -> Array_render_to_string_implementation(els, x, cpp)
      [] els[x].kind = "method" -> Method_render_to_string_implementation(els, x, cpp)
      [] OTHER                  -> Fail("NotImplementedError")

\* the static variables of a container, in member order
RECURSIVE StaticVars(_, _)
StaticVars(els, members) ==
    IF members = <<>> THEN <<>>
    ELSE (IF els[Head(members)].is_static THEN <<Head(members)>> ELSE <<>>)
         \o StaticVars(els, Tail(members))

\* the methods of a container that are not pure virtual, in member order
RECURSIVE NonPureMethods(_, _)
NonPureMethods(els, members) ==
    IF members = <<>> THEN <<>>
    ELSE (IF ~els[Head(members)].is_pure_virtual THEN <<Head(members)>> ELSE <<>>)
         \o NonPureMethods(els, Tail(members))

(***************************************************************************)
(* class_generator.py: CppClass                                            *)
(***************************************************************************)
\* CppClass.render_enum_section
Class_render_enum_section(els, self, cpp) ==
    ThenAll([i \in 1..Len(els[self].scoped_enums) |->
                Enum_render_to_string(els, els[self].scoped_enums[i], cpp)])

\* CppClass.render_internal_classes_declaration
Class_render_internal_classes_declaration(els, self, cpp) ==
    ThenAll([i \in 1..Len(els[self].internal_class_elements) |->
                RenderDeclarationOf(els, els[self].internal_class_elements[i], cpp)])

\* CppClass.render_methods_declaration
Class_render_methods_declaration(els, self, cpp) ==
    ThenAll([i \in 1..Len(els[self].methods) |->
                Method_render_to_string_declaration(els, els[self].methods[i], cpp)])

\* CppClass.render_variables_declaration
Class_render_variables_declaration(els, self, cpp) ==
    ThenAll([i \in 1..Len(els[self].variable_members) |->
                RenderDeclarationOf(els, els[self].variable_members[i], cpp)])

\* CppClass.render_array_declaration
Class_render_array_declaration(els, self, cpp) ==
    ThenAll([i \in 1..Len(els[self].array_members) |->
                RenderDeclarationOf(els, els[self].array_members[i], cpp)])

\* CppClass.class_interface
Class_class_interface(els, self, cpp) ==
    ThenAll(<<Class_render_enum_section(els, self, cpp),
              Class_render_internal_classes_declaration(els, self, cpp),
              Class_render_methods_declaration(els, self, cpp)>>)

\* CppClass.private_class_members
Class_private_class_members(els, self, cpp) ==
    ThenAll(<<Class_render_variables_declaration(els, self, cpp),
              Class_render_array_declaration(els, self, cpp)>>)

\* CppClass.inherits / _parent_class / _class_type: the text that opens the class
Class_render_str(c) ==
    (IF c.is_struct THEN "struct" ELSE "class") \o " " \o Str(c.name)
    \o (IF Truthy(c.parent_class) THEN " : public " \o c.parent_class ELSE "")

\* CppClass.render_to_string_declaration: the body of the `with` writes
\* through cpp, the handle the class was given, not through the block view
Class_render_to_string_declaration(els, self, cpp) ==
    LET c == els[self]
    IN  ThenAll(<<
            RenderDoc(c, self, cpp),
            WithBlock(Cpp_block(cpp, Class_render_str(c), TRUE, ";"),
                      ThenAll(<<IF ~c.is_struct
                                THEN Ok(Stamp(Cpp_label(cpp, "public"), self, "label"))
                                ELSE Ok(<<>>),
                                Class_class_interface(els, self, cpp),
                                Class_private_class_members(els, self, cpp)>>),
                      self),
            RenderNewline(self, cpp)>>)

\* CppClass.render_static_members_implementation
Class_render_static_members_implementation(els, self, cpp) ==
    LET c           == els[self]
        static_vars == StaticVars(els, c.variable_members)
    IN  ThenAll(
            [i \in 1..Len(static_vars) |->
                Then(RenderImplementationOf(els, static_vars[i], cpp),
                     RenderNewline(self, cpp))]
            \o
            [i \in 1..Len(c.array_members) |->
                Then(RenderImplementationOf(els, c.array_members[i], cpp),
                     RenderNewline(self, cpp))]
            \o
            [i \in 1..Len(c.internal_class_elements) |->
                Then(Class_render_static_members_implementation(
                        els, c.internal_class_elements[i], cpp),
                     RenderNewline(self, cpp))])

\* CppClass.render_methods_implementation: for the nested classes it calls
\* render_static_members_implementation, as the source does
Class_render_methods_implementation(els, self, cpp) ==
    LET c       == els[self]
        nonpure == NonPureMethods(els, c.methods)
    IN  ThenAll(
            [i \in 1..Len(nonpure) |->
                Then(Method_render_to_string_implementation(els, nonpure[i], cpp),
                     RenderNewline(self, cpp))]
            \o
            [i \in 1..Len(c.internal_class_elements) |->
                Then(Class_render_static_members_implementation(
                        els, c.internal_class_elements[i], cpp),
                     RenderNewline(self, cpp))])

\* CppClass.render_to_string_implementation
Class_render_to_string_implementation(els, self, cpp) ==
    Then(Class_render_static_members_implementation(els, self, cpp),
         Class_render_methods_implementation(els, self, cpp))

\* CppClass.render_to_string
Class_render_to_string(els, self, cpp) ==
    Then(Class_render_to_string_declaration(els, self, cpp),
         Class_render_to_string_implementation(els, self, cpp))

(***************************************************************************)
(* scope_generator.py: CppClassScope                                       *)
(***************************************************************************)
\* CppClassScope.anything_to_declare_local
Scope_anything_to_declare_local(sc) ==
    \/ sc.internal_class_elements # <<>>
    \/ sc.scoped_enums # <<>>
    \/ sc.variable_members # <<>>
    \/ sc.array_members # <<>>
    \/ sc.methods # <<>>

\* CppClassScope.anything_to_declare
Scope_anything_to_declare(sc) ==
    sc.internal_scopes # <<>> \/ Scope_anything_to_declare_local(sc)

\* the member kinds in the order render_to_string_declaration renders them
Scope_declaration_order_vars_first(sc) ==
    <<sc.variable_members, sc.scoped_enums, sc.internal_class_elements, sc.methods,
      sc.array_members, sc.internal_scopes>>

Scope_declaration_order(sc) ==
    <<sc.scoped_enums, sc.internal_class_elements, sc.methods, sc.variable_members,
      sc.array_members, sc.internal_scopes>>

\* render_enum_declaration, render_internal_classes_declaration, ... : one
\* member collection, each member rendered in turn
Scope_render_members_declaration(els, members, cpp) ==
    ThenAll([i \in 1..Len(members) |->
                IF els[members[i]].kind = "enum"
                THEN Enum_render_to_string(els, members[i], cpp)
                ELSE RenderDeclarationOf(els, members[i], cpp)])

\* CppClassScope.render_to_string_declaration
Scope_render_to_string_declaration(els, self, cpp) ==
    LET sc    == els[self]
        order == Scope_declaration_order(sc)
    IN  IF ~Scope_anything_to_declare(sc) THEN Ok(<<>>)
        ELSE ThenAll(
                <<IF sc.scope # None
                  THEN Ok(Stamp(Cpp_label(cpp, sc.scope), self, "label"))
                  ELSE Ok(<<>>),
                  RenderDoc(sc, self, cpp)>>
                \o [k \in 1..Len(order) |->
                        Scope_render_members_declaration(els, order[k], cpp)])

\* CppClassScope.render_static_members_implementation
Scope_render_static_members_implementation(els, self, cpp) ==
    LET sc          == els[self]
        static_vars == StaticVars(els, sc.variable_members)
    IN  ThenAll(
            [i \in 1..Len(static_vars) |-> RenderImplementationOf(els, static_vars[i], cpp)]
            \o <<IF sc.array_members # <<>> THEN RenderNewline(self, cpp) ELSE Ok(<<>>)>>
            \o [i \in 1..Len(sc.array_members) |->
                    RenderImplementationOf(els, sc.array_members[i], cpp)]
            \o <<RenderNewline(self, cpp)>>)

\* CppClassScope.render_methods_implementation
Scope_render_methods_implementation(els, self, cpp) ==
    LET nonpure == NonPureMethods(els, els[self].methods)
    IN  ThenAll([i \in 1..Len(nonpure) |->
                    Then(Method_render_to_string_implementation(els, nonpure[i], cpp),
                         RenderNewline(self, cpp))])

\* CppClassScope.render_internal_classes_implementation
Scope_render_internal_classes_implementation(els, self, cpp) ==
    ThenAll([i \in 1..Len(els[self].internal_class_elements) |->
                Then(RenderImplementationOf(els, els[self].internal_class_elements[i], cpp),
                     RenderNewline(self, cpp))])

\* CppClassScope.render_internal_scopes_implementation
Scope_render_internal_scopes_implementation(els, self, cpp) ==
    ThenAll([i \in 1..Len(els[self].internal_scopes) |->
                Then(RenderImplementationOf(els, els[self].internal_scopes[i], cpp),
                     RenderNewline(self, cpp))])

\* CppClassScope.render_to_string_implementation
Scope_render_to_string_implementation(els, self, cpp) ==
    ThenAll(<<Scope_render_static_members_implementation(els, self, cpp),
              Scope_render_methods_implementation(els, self, cpp),
              Scope_render_internal_classes_implementation(els, self, cpp),
              Scope_render_internal_scopes_implementation(els, self, cpp)>>)

\* CppClassScope.render_to_string
Scope_render_to_string(els, self, cpp) ==
    Then(Scope_render_to_string_declaration(els, self, cpp),
         Scope_render_to_string_implementation(els, self, cpp))

(***************************************************************************)
(* The element universe of the tree specification: the objects a caller    *)
(* constructed, all of them still standalone (the formatter session        *)
(* renders no element and has none)                                        *)
(***************************************************************************)
NoElems == <<>>

Universe ==
    <<CppClass("Outer", FALSE),
      CppClass("Inner", TRUE),
      CppClassScope("private"),
      CppClassScope(None),
      CppVariable("m_var", "size_t", TRUE, TRUE, FALSE, FALSE, "255"),
      [CppMethod("GetVar", "size_t", "writes") EXCEPT !.is_static = TRUE],
      CppArray("m_arr", "int", TRUE, FALSE, FALSE, <<"1", "2">>),
      CppEnum("Items", <<"A", "B">>)>>

Ids == DOMAIN elems

OfKind(k) == {x \in Ids : elems[x].kind = k}

Containers == {c \in Ids : IsContainer(elems[c])}

\* the handles a tree is rendered into: the source file, and the view of a
\* block opened on it (with cpp.block("namespace n") as view)
FileView == ANSI_enter(SourceFile_block("namespace n", TRUE, None))

RenderHandles == {TheFile, FileView}


(***************************************************************************)
(* A formatter session: a caller drives one CppSourceFile through nested   *)
(* `with handle.block(...)` statements.  OpenBlock is the head of a `with` *)
(* (block() and __enter__), CloseBlock is __exit__, run by the `with` when *)
(* its body ends, normally or by an exception.                             *)
(***************************************************************************)
\* deepest nesting of `with` blocks in a session
MaxDepth == 2

\* most lines a session writes
MaxOut == 4

\* the arguments the session passes to block()
BlockTexts == {"class A"}

BlockPostfixes == {None, "", ";"}

NoLast ==
    [op |-> "none", view |-> TheFile, level0 |-> 0, supplied |-> None,
     failed |-> FALSE, raised |-> FALSE, endline |-> TRUE, text |-> None, n0 |-> 0]

\* the handles alive in the session: 0 is the file, i > 0 the i-th open block view
Handles == 0..Len(stack)

HandleOf(i) == IF i = 0 THEN TheFile ELSE stack[i].view

InitFmt ==
    /\ out = <<>>
    /\ stack = <<>>
    /\ exc = "none"
    /\ last = NoLast
    /\ elems = NoElems
    /\ adds = 0

\* with handle.block(text, endline, postfix): -- block() then __enter__
OpenBlock(i, text, endline, postfix) ==
    /\ exc = "none"
    /\ Len(stack) < MaxDepth
    /\ Len(out) + 2 <= MaxOut
    /\ LET v == Cpp_block(HandleOf(i), text, endline, postfix)
           head == ANSI_enter_lines(v)
       IN  /\ out' = out \o Stamp(SubSeq(head, 1, Len(head) - 1), NoElem, "open")
                        \o Stamp(SubSeq(head, Len(head), Len(head)), NoElem, "brace")
           /\ stack' = Append(stack, [view |-> ANSI_enter(v), level0 |-> v.indent_level,
                                      supplied |-> postfix])
           /\ last' = [NoLast EXCEPT !.op = "enter", !.view = ANSI_enter(v),
                                     !.level0 = v.indent_level, !.supplied = postfix,
                                     !.endline = endline, !.text = text, !.n0 = Len(out)]
    /\ UNCHANGED <<exc, elems, adds>>

\* handle(text) inside a body
WriteLine(i, text) ==
    /\ exc = "none"
    /\ Len(out) < MaxOut
    /\ out' = out \o Stamp(Cpp_call(HandleOf(i), text), NoElem, "body")
    /\ last' = [NoLast EXCEPT !.op = "line", !.view = HandleOf(i)]
    /\ UNCHANGED <<stack, exc, elems, adds>>

\* handle.label(text) inside a body
WriteLabel(i, text) ==
    /\ exc = "none"
    /\ Len(out) < MaxOut
    /\ out' = out \o Stamp(Cpp_label(HandleOf(i), text), NoElem, "label")
    /\ last' = [NoLast EXCEPT !.op = "label", !.view = HandleOf(i)]
    /\ UNCHANGED <<stack, exc, elems, adds>>

\* the body of the innermost block raises
BodyRaises ==
    /\ exc = "none"
    /\ stack # <<>>
    /\ exc' = "BodyError"
    /\ last' = [NoLast EXCEPT !.op = "raise"]
    /\ UNCHANGED <<out, stack, elems, adds>>

\* __exit__ of the innermost block: its body returned, or an exception leaves it
CloseBlock ==
    /\ stack # <<>>
    /\ LET top == stack[Len(stack)]
           r   == ANSI_exit(top.view)
       IN  /\ out' = out \o Stamp(r.out, NoElem, "close")
           /\ exc' = IF r.err # "none" THEN r.err ELSE exc
           /\ last' = [NoLast EXCEPT !.op = "exit", !.view = ANSI_exit_view(top.view),
                                     !.level0 = top.level0, !.supplied = top.supplied,
                                     !.failed = (r.err # "none"), !.raised = (exc # "none"),
                                     !.n0 = Len(out)]
    /\ stack' = SubSeq(stack, 1, Len(stack) - 1)
    /\ UNCHANGED <<elems, adds>>

NextFmt ==
    \/ \E i \in Handles, t \in BlockTexts, e \in BOOLEAN, p \in BlockPostfixes :
          OpenBlock(i, t, e, p)
    \/ \E i \in Handles : WriteLine(i, "x;")
    \/ \E i \in Handles : WriteLabel(i, "public")
    \/ BodyRaises
    \/ CloseBlock

SpecFmt == InitFmt /\ [][NextFmt]_vars

\* number of lines of the sink with the given role
RECURSIVE CountRole(_, _)
CountRole(lines, role) ==
    IF lines = <<>> THEN 0
    ELSE (IF Head(lines).role = role THEN 1 ELSE 0) + CountRole(Tail(lines), role)

\* number of lines of the sink whose text is the given text
RECURSIVE CountTxt(_, _)
CountTxt(lines, txt) ==
    IF lines = <<>> THEN 0
    ELSE (IF Head(lines).txt = txt THEN 1 ELSE 0) + CountTxt(Tail(lines), txt)

\* C1: when the body of a block raised, __exit__ still ran to its end: the
\* view's indent level is back at its value before entry, the closing brace
\* line was written, and once every block is left the sink holds as many
\* closing as opening lines.
C1_ExitAfterRaise ==
    (last.op = "exit" /\ last.raised) =>
        /\ last.view.indent_level = last.level0
        /\ Len(out) = last.n0 + 1
        /\ out[Len(out)].role = "close"
        /\ (stack = <<>> => CountRole(out, "close") = CountRole(out, "brace"))

\* C2: entry writes the opening text and "{" and raises the level by one;
\* exit lowers it by one and writes "}" followed by the postfix (nothing
\* when none was supplied) at the level of the opening line, and never fails.
C2_BlockEntryExit ==
    /\ last.op = "enter" =>
          /\ last.view.indent_level = last.level0 + 1
          /\ IF last.endline
             THEN /\ Len(out) = last.n0 + 2
                  /\ out[last.n0 + 1].txt = last.text /\ out[last.n0 + 1].ind = last.level0
                  /\ out[last.n0 + 2].txt = "{" /\ out[last.n0 + 2].ind = last.level0
             ELSE /\ Len(out) = last.n0 + 1
                  /\ out[last.n0 + 1].txt = last.text \o " {"
                  /\ out[last.n0 + 1].ind = last.level0
    /\ last.op = "exit" =>
          /\ ~last.failed
          /\ last.view.indent_level = last.level0
          /\ Len(out) = last.n0 + 1
          /\ out[Len(out)].txt = "}" \o (IF last.supplied = None THEN "" ELSE last.supplied)
          /\ out[Len(out)].ind = last.level0
          /\ out[Len(out)].nl

(***************************************************************************)
(* The tree specification: a caller attaches the constructed elements to   *)
(* one another with the add_* calls and then renders a container into a    *)
(* fresh sink through one of its three entry points.                       *)
(***************************************************************************)
\* most add_* calls of a session
MaxAdds == 3

Init ==
    /\ out = <<>>
    /\ stack = <<>>
    /\ exc = "none"
    /\ last = [op |-> "none", el |-> NoElem, cpp |-> TheFile]
    /\ elems = Universe
    /\ adds = 0

\* x and the elements above it on the parent chain
RECURSIVE SelfAndAncestors(_, _)
SelfAndAncestors(els, x) ==
    IF x = NoElem THEN {} ELSE {x} \union SelfAndAncestors(els, els[x].ref_to_parent)

\* The construction discipline of a session (spec, section 6): an element is
\* handed to one add_* call, and never to a container that lies below it.
Building(c, x) ==
    /\ last.op = "none"
    /\ adds < MaxAdds
    /\ elems[x].ref_to_parent = NoElem
    /\ x \notin SelfAndAncestors(elems, c)

Added(els) ==
    /\ elems' = els
    /\ adds' = adds + 1
    /\ UNCHANGED <<out, stack, exc, last>>

AddEnum(c, x) == Building(c, x) /\ Added(add_enum(elems, c, x))

AddVariable(c, x) == Building(c, x) /\ Added(add_variable(elems, c, x))

AddArray(c, x) == Building(c, x) /\ Added(add_array(elems, c, x))

AddInternalClass(c, x) == Building(c, x) /\ Added(add_internal_class(elems, c, x))

AddMethod(c, x) == Building(c, x) /\ Added(add_method(elems, c, x))

AddInternalScope(c, x) == Building(c, x) /\ Added(add_internal_scope(elems, c, x))

Rendered(op, c, cpp, r) ==
    /\ last.op = "none"
    /\ out' = r.out
    /\ exc' = r.err
    /\ last' = [op |-> op, el |-> c, cpp |-> cpp]
    /\ UNCHANGED <<stack, elems, adds>>

\* c.render_to_string_declaration(cpp)
RenderDeclaration(c, cpp) ==
    Rendered("declaration", c, cpp, RenderDeclarationOf(elems, c, cpp))

\* c.render_to_string_implementation(cpp)
RenderImplementation(c, cpp) ==
    Rendered("implementation", c, cpp, RenderImplementationOf(elems, c, cpp))

\* c.render_to_string(cpp)
RenderToString(c, cpp) ==
    Rendered("both", c, cpp,
             IF elems[c].kind = "class" THEN Class_render_to_string(elems, c, cpp)
             ELSE Scope_render_to_string(elems, c, cpp))

Next ==
    \/ \E c \in Containers, x \in OfKind("enum") : AddEnum(c, x)
    \/ \E c \in Containers, x \in OfKind("var") : AddVariable(c, x)
    \/ \E c \in Containers, x \in OfKind("array") : AddArray(c, x)
    \/ \E c \in Containers, x \in OfKind("class") : AddInternalClass(c, x)
    \/ \E c \in Containers, x \in OfKind("method") : AddMethod(c, x)
    \/ \E c \in OfKind("scope"), x \in OfKind("scope") : AddInternalScope(c, x)
    \/ \E c \in Containers, cpp \in RenderHandles : RenderDeclaration(c, cpp)
    \/ \E c \in Containers, cpp \in RenderHandles : RenderImplementation(c, cpp)
    \/ \E c \in Containers, cpp \in RenderHandles : RenderToString(c, cpp)

Spec == Init /\ [][Next]_vars

(***************************************************************************)
(* Reading the sink of a render call                                       *)
(***************************************************************************)
DeclarationDone == last.op = "declaration"

ImplementationDone == last.op = "implementation"

\* the members of a container, of every kind
MembersOf(e) ==
    e.scoped_enums \o e.internal_class_elements \o e.methods \o e.variable_members
    \o e.array_members \o (IF e.kind = "scope" THEN e.internal_scopes ELSE <<>>)

Range(f) == {f[i] : i \in DOMAIN f}

\* the member of c that x is, or lies below (NoElem if x is not below c)
RECURSIVE TopUnder(_, _, _)
TopUnder(els, c, x) ==
    IF x = NoElem THEN NoElem
    ELSE IF els[x].ref_to_parent = c THEN x
    ELSE TopUnder(els, c, els[x].ref_to_parent)

\* the members of c in the order their text appears in the sink: each line is
\* traced to the member of c it belongs to, runs of one member count once
RECURSIVE MemberTrace(_, _, _)
MemberTrace(els, c, lines) ==
    IF lines = <<>> THEN <<>>
    ELSE LET rest == MemberTrace(els, c, Tail(lines))
             m    == TopUnder(els, c, Head(lines).el)
         IN  IF m = NoElem THEN rest
             ELSE IF rest # <<>> /\ rest[1] = m THEN rest
             ELSE <<m>> \o rest

\* the elements of seq that are in set, in the order of seq
RECURSIVE Restrict(_, _)
Restrict(seq, set) ==
    IF seq = <<>> THEN <<>>
    ELSE (IF Head(seq) \in set THEN <<Head(seq)>> ELSE <<>>) \o Restrict(Tail(seq), set)

\* the first line of the sink written by element x (0 if there is none)
FirstLineOf(x) ==
    IF \E i \in 1..Len(out) : out[i].el = x
    THEN CHOOSE i \in 1..Len(out) : out[i].el = x /\ \A j \in 1..(i - 1) : out[j].el # x
    ELSE 0

\* the lines of the sink written by element x in the given role
LinesOf(x, role) == {i \in 1..Len(out) : out[i].el = x /\ out[i].role = role}

\* C3: in the declaration pass of a class, the first line of every member is
\* written one level deeper than the line that opens the class.
C3_MembersOneLevelDeeper ==
    (DeclarationDone /\ elems[last.el].kind = "class") =>
        \A x \in Range(MembersOf(elems[last.el])) :
            FirstLineOf(x) # 0 =>
                out[FirstLineOf(x)].ind = out[FirstLineOf(last.el)].ind + 1

C5_EmptyIffNoMembers ==
    (DeclarationDone /\ elems[last.el].kind = "scope") =>
        (out = <<>> <=> MembersOf(elems[last.el]) = <<>>)

\* the place of a line of the definition pass of container c in the order of
\* C6: 1 a static variable of c, 2 an array of c, 3 a method of c, 4 a nested
\* class or scope of c (0: a line of c itself)
DefinitionPhase(els, c, line) ==
    LET m == TopUnder(els, c, line.el)
    IN  IF m = NoElem THEN 0
        ELSE IF els[m].kind = "var" THEN 1
        ELSE IF els[m].kind = "array" THEN 2
        ELSE IF els[m].kind = "method" THEN 3
        ELSE 4

\* C6: the definition pass of a class or scope writes the definitions of its
\* static variables, then those of its arrays, then the bodies of its
\* methods, then the definition passes of its nested classes and scopes.
C6_DefinitionOrder ==
    (ImplementationDone /\ exc = "none") =>
        \A i, j \in 1..Len(out) :
            LET pi == DefinitionPhase(elems, last.el, out[i])
                pj == DefinitionPhase(elems, last.el, out[j])
            IN  (i < j /\ pi # 0 /\ pj # 0) => pi <= pj

\* the classes nested in class c, at any depth
NestedClasses(els, c) ==
    {n \in DOMAIN els : /\ els[n].kind = "class"
                        /\ c \in SelfAndAncestors(els, els[n].ref_to_parent)}

\* C7: the definition pass of a class writes, for every class nested in it at
\* any depth, the definition of each static member and the body of each
\* method that is not pure virtual.
C7_NestedClassesDefined ==
    (ImplementationDone /\ exc = "none" /\ elems[last.el].kind = "class") =>
        \A n \in NestedClasses(elems, last.el) :
            /\ \A v \in Range(elems[n].variable_members) :
                  elems[v].is_static => LinesOf(v, "def") # {}
            /\ \A m \in Range(elems[n].methods) :
                  ~elems[m].is_pure_virtual => LinesOf(m, "body") # {}

\* the ancestors of an element whose parent is p, outermost first
RECURSIVE AncestorsFrom(_, _)
AncestorsFrom(els, p) ==
    IF p = NoElem THEN <<>> ELSE Append(AncestorsFrom(els, els[p].ref_to_parent), p)

\* the names of the elements of seq, in order, each followed by "::"
RECURSIVE QualifierOf(_, _)
QualifierOf(els, seq) ==
    IF seq = <<>> THEN ""
    ELSE (IF els[Head(seq)].name # None THEN els[Head(seq)].name \o "::" ELSE "")
         \o QualifierOf(els, Tail(seq))

\* the qualified name C8 describes: the names of the ancestors from the
\* outermost to the parent, each followed by "::", then the own name
OutermostFirstName(els, x) ==
    QualifierOf(els, AncestorsFrom(els, els[x].ref_to_parent)) \o els[x].name

\* the spellings of the modifiers in front of the type of a definition
ModifierPrefixes == {"", "static ", "const ", "static const "}

\* the static variables of a class that is nested in a class
StaticsOfNestedClasses(els) ==
    {v \in DOMAIN els :
        /\ els[v].kind = "var" /\ els[v].is_static
        /\ els[v].ref_to_parent # NoElem
        /\ els[els[v].ref_to_parent].kind = "class"
        /\ els[els[v].ref_to_parent].ref_to_parent # NoElem
        /\ els[els[els[v].ref_to_parent].ref_to_parent].kind = "class"}

\* C8: the fully qualified name of a named element is the names of its
\* ancestors from the outermost to its parent, each followed by "::", then
\* its own name; without a parent the qualifier is empty; scoped_name is the
\* bare name for a local scope and the fully qualified name otherwise; and
\* the definition pass writes a static member of a class nested in a class
\* under that qualified name.
C8_QualifiedName ==
    /\ \A x \in Ids :
          /\ elems[x].name # None =>
                /\ fully_qualified_name(elems, x) = OutermostFirstName(elems, x)
                /\ scoped_name(elems, x, FALSE) = OutermostFirstName(elems, x)
          /\ scoped_name(elems, x, TRUE) = elems[x].name
          /\ elems[x].ref_to_parent = NoElem => parent_qualifier(elems, x) = ""
    /\ (ImplementationDone /\ exc = "none") =>
          \A v \in StaticsOfNestedClasses(elems) : \A i \in LinesOf(v, "def") :
              \E pre \in ModifierPrefixes :
                  out[i].txt = pre \o elems[v].type \o " "
                               \o elems[elems[elems[v].ref_to_parent].ref_to_parent].name
                               \o "::" \o elems[elems[v].ref_to_parent].name
                               \o "::" \o elems[v].name
                               \o " = " \o elems[v].value \o ";"

\* the definition pass of class Outer wrote the static member of the class
\* Inner nested in it
C8_Witness ==
    /\ ImplementationDone /\ exc = "none"
    /\ elems[last.el].ref_to_parent = NoElem
    /\ \E v \in StaticsOfNestedClasses(elems) :
          /\ elems[elems[v].ref_to_parent].ref_to_parent = last.el
          /\ LinesOf(v, "def") # {}
          /\ fully_qualified_name(elems, v) = "Outer::Inner::m_var"

\* the static const variables that are members of class c
StaticConstMembers(els, c) ==
    {v \in Range(els[c].variable_members) :
        els[v].is_static /\ els[v].is_const /\ ~els[v].is_constexpr}

\* C9: for a static const member of a class the declaration pass writes
\* `static const <type> <name>;` and the definition pass writes
\* `const <type> <Class>::<name> = <value>;`, without the static keyword.
C9_StaticConstMember ==
    (exc = "none" /\ last.el # NoElem /\ elems[last.el].kind = "class"
        /\ elems[last.el].ref_to_parent = NoElem) =>
        \A v \in StaticConstMembers(elems, last.el) :
            /\ \A i \in LinesOf(v, "decl") :
                  out[i].txt = "static const " \o elems[v].type \o " " \o elems[v].name \o ";"
            /\ \A i \in LinesOf(v, "def") :
                  out[i].txt = "const " \o elems[v].type \o " " \o elems[last.el].name
                               \o "::" \o elems[v].name \o " = " \o elems[v].value \o ";"

(***************************************************************************)
(* SpecVar: one variable, constructed with any combination of its          *)
(* properties, optionally added to a struct, then rendered through one of  *)
(* its three entry points                                                  *)
(***************************************************************************)
\* the values of the `value` and `documentation` properties
VarValues == {None, "255"}

VarDocs == {None, "/// doc"}

\* CppVariable(**properties): every combination of the properties
VarInputs ==
    {[CppVariable("m_var", "size_t", s, c, ce, ex, val)
        EXCEPT !.is_class_member = m, !.documentation = d] :
        s \in BOOLEAN, c \in BOOLEAN, ce \in BOOLEAN, ex \in BOOLEAN, m \in BOOLEAN,
        val \in VarValues, d \in VarDocs}

InitVar ==
    /\ out = <<>>
    /\ stack = <<>>
    /\ exc = "none"
    /\ last = [op |-> "none", el |-> NoElem, cpp |-> TheFile]
    /\ elems \in {<<CppClass("MyClass", TRUE), v>> : v \in VarInputs}
    /\ adds = 0

\* v.render_to_string(cpp)
VarRenderToString(v, cpp) ==
    Rendered("render", v, cpp, Var_render_to_string(elems, v, cpp))

\* v.render_to_string_declaration(cpp)
VarRenderDeclaration(v, cpp) ==
    Rendered("declaration", v, cpp, Var_render_to_string_declaration(elems, v, cpp))

\* v.render_to_string_implementation(cpp)
VarRenderImplementation(v, cpp) ==
    Rendered("implementation", v, cpp, Var_render_to_string_implementation(elems, v, cpp))

NextVar ==
    \/ \E c \in OfKind("class"), v \in OfKind("var") : AddVariable(c, v)
    \/ \E v \in OfKind("var"), cpp \in RenderHandles : VarRenderToString(v, cpp)
    \/ \E v \in OfKind("var"), cpp \in RenderHandles : VarRenderDeclaration(v, cpp)
    \/ \E v \in OfKind("var"), cpp \in RenderHandles : VarRenderImplementation(v, cpp)

SpecVar == InitVar /\ [][NextVar]_vars

RenderDone == last.op = "render" /\ elems[last.el].kind = "var"

\* the statement `<modifiers> <type> <name> = <value>;` of variable v
CompleteStatement(v) ==
    (IF v.is_static THEN "static " ELSE "") \o (IF v.is_const THEN "const " ELSE "")
    \o (IF v.is_constexpr THEN "constexpr " ELSE "")
    \o v.type \o " " \o v.name \o " = " \o (IF v.value = None THEN "" ELSE v.value) \o ";"

\* the statement `extern <type> <name>;` of variable v
ExternStatement(v) == "extern " \o v.type \o " " \o v.name \o ";"

InvalidVariable(v) ==
    \/ v.is_const /\ v.is_constexpr
    \/ v.is_constexpr /\ v.value \in {None, ""}
    \/ v.is_static /\ v.is_extern

VarImplementationDone == last.op = "implementation" /\ elems[last.el].kind = "var"

VarDeclarationDone == last.op = "declaration" /\ elems[last.el].kind = "var"

\* the value of v as text (nothing when there is none)
ValueText(v) == IF v.value = None THEN "" ELSE v.value

\* the name of v behind the name of the class it was added to
ClassQualifiedName(els, x) ==
    (IF els[x].ref_to_parent = NoElem THEN ""
     ELSE els[els[x].ref_to_parent].name \o "::") \o els[x].name

\* the sink holds the full definition of member x under its qualified name
QualifiedDefinitionWritten(x) ==
    /\ Len(out) = 1
    /\ \E pre \in ModifierPrefixes :
          out[1].txt = pre \o elems[x].type \o " " \o ClassQualifiedName(elems, x)
                       \o " = " \o ValueText(elems[x]) \o ";"

\* the sink holds the constructor-initializer fragment name(value) of v
InitializerFragmentWritten(v) ==
    Len(out) = 1 /\ out[1].txt = v.name \o "(" \o ValueText(v) \o ")"

\* C11 as stated: the definition entry point of a member variable fails with
\* a usage error when the variable is constexpr, writes the class-qualified
\* full definition when it is static and not constexpr, and the fragment
\* name(value) when it is not static.
C11_DefinitionAsStated ==
    (VarImplementationDone /\ elems[last.el].is_class_member) =>
        LET v == elems[last.el]
        IN  IF v.is_constexpr THEN exc = "RuntimeError" /\ out = <<>>
            ELSE IF v.is_static THEN exc = "none" /\ QualifiedDefinitionWritten(last.el)
            ELSE exc = "none" /\ InitializerFragmentWritten(v)

\* C11 as amended: the definition entry point fails with a usage error,
\* writing nothing, for a non-member; for a member it writes nothing and
\* raises nothing when the variable is constexpr, writes the class-qualified
\* full definition when it is static and not constexpr, and the fragment
\* name(value) when it is neither static nor constexpr.
C11_DefinitionEntry ==
    VarImplementationDone =>
        LET v == elems[last.el]
        IN  IF ~v.is_class_member THEN exc = "RuntimeError" /\ out = <<>>
            ELSE IF v.is_constexpr THEN exc = "none" /\ out = <<>>
            ELSE IF v.is_static THEN exc = "none" /\ QualifiedDefinitionWritten(last.el)
            ELSE exc = "none" /\ InitializerFragmentWritten(v)

\* the definition entry point wrote the definition of a static member that
\* was added to the struct
C11_Witness ==
    /\ VarImplementationDone /\ exc = "none"
    /\ elems[last.el].ref_to_parent \in OfKind("class")
    /\ elems[last.el].is_static /\ ~elems[last.el].is_constexpr
    /\ \E pre \in ModifierPrefixes :
          out = <<[el |-> last.el, role |-> "def", ind |-> 0, nl |-> TRUE,
                   txt |-> pre \o "size_t MyClass::m_var = 255;"]>>

\* the modifiers of a member declaration, each followed by a space
DeclarationModifiers(v) ==
    (IF v.is_static THEN "static " ELSE "") \o (IF v.is_extern THEN "extern " ELSE "")
    \o (IF v.is_const THEN "const " ELSE "") \o (IF v.is_constexpr THEN "constexpr " ELSE "")

\* C12: the declaration entry point fails with a usage error for a
\* non-member; for a member it writes the modifiers, the type and the bare
\* name, without initializer, unless the member is constexpr: then it writes
\* the full definition `constexpr <type> <name> = <value>;`.
C12_DeclarationEntry ==
    VarDeclarationDone =>
        LET v      == elems[last.el]
            hasDoc == v.documentation \notin {None, ""}
        IN  IF ~v.is_class_member THEN exc = "RuntimeError" /\ out = <<>>
            ELSE /\ exc = "none"
                 /\ Len(out) = (IF hasDoc THEN 2 ELSE 1)
                 /\ hasDoc => out[1].txt = v.documentation
                 /\ out[Len(out)].txt =
                        DeclarationModifiers(v) \o v.type \o " " \o v.name
                        \o (IF v.is_constexpr THEN " = " \o ValueText(v) ELSE "") \o ";"

\* the declaration entry point wrote the full definition of a constexpr member
C12_Witness ==
    /\ VarDeclarationDone /\ exc = "none"
    /\ elems[last.el].ref_to_parent \in OfKind("class")
    /\ out # <<>> /\ out[Len(out)].txt = "constexpr size_t m_var = 255;"

\* C13: whichever entry point renders a variable with const and constexpr,
\* static and extern, or constexpr without a value, the call fails with a
\* configuration error and nothing is written.
C13_InvalidVariableRejected ==
    (last.op \in {"render", "declaration", "implementation"}
        /\ elems[last.el].kind = "var" /\ InvalidVariable(elems[last.el])) =>
        exc = "ValueError" /\ out = <<>>

(***************************************************************************)
(* SpecMethod: one method, constructed with any combination of its flags,  *)
(* with or without a body callback, optionally added to a struct, then     *)
(* rendered through one of its three entry points                          *)
(***************************************************************************)
\* the body callbacks a caller passes: none, one that writes a statement,
\* one that raises
MethodBodies == {None, "writes", "raises"}

\* CppMethod(**properties): every combination of the flags
MethodInputs ==
    {[CppMethod("GetVar", "size_t", impl)
        EXCEPT !.is_static = st, !.is_constexpr = ce, !.is_virtual = vi, !.is_inline = inl,
               !.is_pure_virtual = pv, !.is_const = co, !.is_override = ov,
               !.is_final = fi, !.documentation = d] :
        st \in BOOLEAN, ce \in BOOLEAN, vi \in BOOLEAN, inl \in BOOLEAN, pv \in BOOLEAN,
        co \in BOOLEAN, ov \in BOOLEAN, fi \in BOOLEAN, impl \in MethodBodies,
        d \in VarDocs}

InitMethod ==
    /\ out = <<>>
    /\ stack = <<>>
    /\ exc = "none"
    /\ last = [op |-> "none", el |-> NoElem, cpp |-> TheFile]
    /\ elems \in {<<CppClass("MyClass", TRUE), m>> : m \in MethodInputs}
    /\ adds = 0

\* m.render_to_string(cpp)
MethodRenderToString(m, cpp) ==
    Rendered("render", m, cpp, Method_render_to_string(elems, m, cpp))

\* m.render_to_string_declaration(cpp)
MethodRenderDeclaration(m, cpp) ==
    Rendered("declaration", m, cpp, Method_render_to_string_declaration(elems, m, cpp))

\* m.render_to_string_implementation(cpp)
MethodRenderImplementation(m, cpp) ==
    Rendered("implementation", m, cpp, Method_render_to_string_implementation(elems, m, cpp))

NextMethod ==
    \/ \E c \in OfKind("class"), m \in OfKind("method") : AddMethod(c, m)
    \/ \E m \in OfKind("method"), cpp \in RenderHandles : MethodRenderToString(m, cpp)
    \/ \E m \in OfKind("method"), cpp \in RenderHandles : MethodRenderDeclaration(m, cpp)
    \/ \E m \in OfKind("method"), cpp \in RenderHandles : MethodRenderImplementation(m, cpp)

SpecMethod == InitMethod /\ [][NextMethod]_vars

\* an entry point of a method was called
MethodRendered ==
    last.op \in {"render", "declaration", "implementation"} /\ elems[last.el].kind = "method"

\* the rules a method has to satisfy
MethodRulesHold(m) ==
    /\ m.is_inline => ~m.is_virtual /\ ~m.is_pure_virtual
    /\ m.is_constexpr => ~m.is_virtual /\ ~m.is_pure_virtual
    /\ m.is_const => ~m.is_static /\ ~m.is_virtual /\ ~m.is_pure_virtual
    /\ m.is_override => m.is_virtual
    /\ m.is_final => m.is_virtual
    /\ m.is_static => ~m.is_virtual
    /\ m.is_pure_virtual => m.is_virtual /\ m.implementation = None
    /\ m.is_constexpr => m.implementation # None
    /\ m.ref_to_parent # NoElem

C15_MethodErrorsBeforeText ==
    MethodRendered =>
        LET m == elems[last.el]
        IN  (\/ ~MethodRulesHold(m)
             \/ /\ last.op \in {"render", "implementation"}
                /\ m.is_pure_virtual \/ m.implementation = None)
            => (exc # "none" /\ out = <<>>)

(***************************************************************************)
(* SpecInvalid: the tree specification over elements some of which cannot  *)
(* be rendered as members: an array that is not static (it has no          *)
(* definition) and a method that is both static and const                  *)
(***************************************************************************)
InvalidUniverse ==
    <<CppClass("Outer", FALSE),
      CppClassScope("private"),
      CppClassScope(None),
      CppVariable("m_var", "size_t", TRUE, TRUE, FALSE, FALSE, "255"),
      CppArray("m_buf", "int", FALSE, FALSE, FALSE, <<"1", "2">>),
      [CppMethod("GetVar", "size_t", "writes") EXCEPT !.is_static = TRUE, !.is_const = TRUE],
      CppEnum("Items", <<"A", "B">>)>>

InitInvalid ==
    /\ out = <<>>
    /\ stack = <<>>
    /\ exc = "none"
    /\ last = [op |-> "none", el |-> NoElem, cpp |-> TheFile]
    /\ elems = InvalidUniverse
    /\ adds = 0

SpecInvalid == InitInvalid /\ [][Next]_vars

\* the errors of validation and of calling the wrong entry point
ConfigurationOrUsageErrors == {"ValueError", "RuntimeError"}

\* C16: when the declaration or the definition pass of a class or scope ends
\* in a configuration or usage error of one of its members, no text of the
\* class or scope is in the sink.
C16_AllOrNothing ==
    (last.op \in {"declaration", "implementation"}
        /\ IsContainer(elems[last.el]) /\ exc \in ConfigurationOrUsageErrors) =>
        out = <<>>

(***************************************************************************)
(* SpecEnum: one enum, constructed with any item list and properties,      *)
(* optionally added to a struct, then rendered                             *)
(***************************************************************************)
\* most items of an enum or array
MaxItems == 3

ItemNames == {"A", "B"}

\* the item lists of at most MaxItems items
ItemLists == UNION {[1..n -> ItemNames] : n \in 0..MaxItems}

EnumPrefixes == {None, "", "k"}

\* CppEnum(**properties)
EnumInputs ==
    {[CppEnum("Items", items)
        EXCEPT !.prefix = pre, !.add_counter = cnt, !.is_enum_class = ec] :
        items \in ItemLists, pre \in EnumPrefixes, cnt \in BOOLEAN, ec \in BOOLEAN}

InitEnum ==
    /\ out = <<>>
    /\ stack = <<>>
    /\ exc = "none"
    /\ last = [op |-> "none", el |-> NoElem, cpp |-> TheFile]
    /\ elems \in {<<CppClass("MyClass", TRUE), e>> : e \in EnumInputs}
    /\ adds = 0

\* e.render_to_string(cpp)
EnumRenderToString(e, cpp) ==
    Rendered("render", e, cpp, Enum_render_to_string(elems, e, cpp))

NextEnum ==
    \/ \E c \in OfKind("class"), e \in OfKind("enum") : AddEnum(c, e)
    \/ \E e \in OfKind("enum"), cpp \in RenderHandles : EnumRenderToString(e, cpp)

SpecEnum == InitEnum /\ [][NextEnum]_vars

EnumRendered == last.op = "render" /\ elems[last.el].kind = "enum"

\* a line is the given item text, with or without a separating comma
IsItem(line, text) == line.txt = text \/ line.txt = text \o ","

ArrayInputs ==
    {[CppArray(name, type, st, co, nla, items) EXCEPT !.is_class_member = m] :
        name \in {None, "m_arr"}, type \in {None, "int"}, st \in BOOLEAN, co \in BOOLEAN,
        nla \in BOOLEAN, items \in ItemLists, m \in BOOLEAN}

InitArray ==
    /\ out = <<>>
    /\ stack = <<>>
    /\ exc = "none"
    /\ last = [op |-> "none", el |-> NoElem, cpp |-> TheFile]
    /\ elems \in {<<CppClass("MyClass", TRUE), a>> : a \in ArrayInputs}
    /\ adds = 0

\* a.render_to_string(cpp)
ArrayRenderToString(a, cpp) ==
    Rendered("render", a, cpp, Array_render_to_string(elems, a, cpp))

\* a.render_to_string_declaration(cpp)
ArrayRenderDeclaration(a, cpp) ==
    Rendered("declaration", a, cpp, Array_render_to_string_declaration(elems, a, cpp))

\* a.render_to_string_implementation(cpp)
ArrayRenderImplementation(a, cpp) ==
    Rendered("implementation", a, cpp, Array_render_to_string_implementation(elems, a, cpp))

NextArray ==
    \/ \E c \in OfKind("class"), a \in OfKind("array") : AddArray(c, a)
    \/ \E a \in OfKind("array"), cpp \in RenderHandles : ArrayRenderToString(a, cpp)
    \/ \E a \in OfKind("array"), cpp \in RenderHandles : ArrayRenderDeclaration(a, cpp)
    \/ \E a \in OfKind("array"), cpp \in RenderHandles : ArrayRenderImplementation(a, cpp)

SpecArray == InitArray /\ [][NextArray]_vars

\* an entry point of an array was called
ArrayRendered ==
    last.op \in {"render", "declaration", "implementation"} /\ elems[last.el].kind = "array"

\* the left-hand side of the definition of array x: modifiers, type and the
\* name (behind the class name in the definition pass) with empty brackets
ArrayLeftSide(els, x, qualified) ==
    (IF els[x].is_static THEN "static " ELSE "") \o (IF els[x].is_const THEN "const " ELSE "")
    \o els[x].type \o " "
    \o (IF qualified THEN ClassQualifiedName(els, x) ELSE els[x].name) \o "[]"

\* C18: an array with newline_align and N >= 1 items is rendered as a block
\* whose braces enclose N lines, one item per line in insertion order, all
\* but the last followed by a comma; an array without items is rendered on
\* one line with nullptr as its content, with or without newline_align.
C18_ArrayItems ==
    (ArrayRendered /\ last.op \in {"render", "implementation"} /\ exc = "none") =>
        LET a    == elems[last.el]
            N    == Len(a.items)
            left == ArrayLeftSide(elems, last.el, last.op = "implementation")
        IN  /\ (a.newline_align /\ N >= 1) =>
                  /\ Len(out) = N + 2
                  /\ out[1].txt = left \o " = {" /\ out[N + 2].txt = "};"
                  /\ \A i \in 1..(N - 1) : out[i + 1].txt = a.items[i] \o ","
                  /\ out[N + 1].txt = a.items[N]
                  /\ \A i \in 1..N : out[i + 1].ind = out[1].ind + 1
            /\ N = 0 => out = <<[out[1] EXCEPT !.txt = left \o " = {nullptr};"]>>

\* the definition pass rendered an aligned array of three items
C18_Witness ==
    /\ ArrayRendered /\ last.op = "implementation" /\ exc = "none"
    /\ elems[last.el].newline_align /\ Len(elems[last.el].items) = 3
    /\ elems[last.el].ref_to_parent \in OfKind("class")
    /\ Len(out) = 5 /\ out[1].txt = "static int MyClass::m_arr[] = {"

\* C19: render_to_string on a member that is not static and const, the
\* declaration or definition entry point on a non-member, the definition
\* entry point on a member that is not static, and every entry point on an
\* array without type or name, fail before anything is written.
C19_ArrayRejected ==
    ArrayRendered =>
        LET a == elems[last.el]
        IN  (\/ a.type \in {None, ""} \/ a.name \in {None, ""}
             \/ last.op = "render" /\ a.is_class_member /\ ~(a.is_static /\ a.is_const)
             \/ last.op \in {"declaration", "implementation"} /\ ~a.is_class_member
             \/ last.op = "implementation" /\ ~a.is_static)
            => (exc = "RuntimeError" /\ out = <<>>)

\* the definition entry point refused a member array that is not static
C19_Witness ==
    /\ ArrayRendered /\ last.op = "implementation"
    /\ elems[last.el].ref_to_parent \in OfKind("class")
    /\ elems[last.el].type = "int" /\ elems[last.el].name = "m_arr"
    /\ ~elems[last.el].is_static
    /\ exc = "RuntimeError" /\ out = <<>>

(***************************************************************************)
(* SpecProps: an element is constructed from an option mapping.  The       *)
(* object is the function from its attribute names to their values (as     *)
(* text), the mapping the sequence of its <<name, value>> pairs in         *)
(* insertion order.                                                        *)
(***************************************************************************)
\* most options of a mapping
MaxProps == 3

\* CppLanguageElement.PROPERTIES and those of two of its subclasses
LanguageElement_PROPERTIES == {"name", "ref_to_parent"}

Variable_PROPERTIES ==
    LanguageElement_PROPERTIES \union
    {"type", "is_static", "is_extern", "is_const", "is_constexpr", "is_class_member",
     "value", "documentation"}

Enum_PROPERTIES ==
    LanguageElement_PROPERTIES \union {"prefix", "is_enum_class", "add_counter", "enum_items"}

PROPERTIES(cls) == IF cls = "CppVariable" THEN Variable_PROPERTIES ELSE Enum_PROPERTIES

\* the attributes __init__ has set when it calls init_properties
ConstructorAttributes(cls) ==
    IF cls = "CppVariable"
    THEN [name |-> None, ref_to_parent |-> None, type |-> None, is_static |-> "False",
          is_extern |-> "False", is_const |-> "False", is_constexpr |-> "False",
          is_class_member |-> "False", value |-> None, documentation |-> None]
    ELSE [prefix |-> None, enum_class |-> "False", add_counter |-> "True",
          enum_items |-> "[]"]

\* d[k] = v on a dict
DictSet(d, k, v) == [x \in DOMAIN d \union {k} |-> IF x = k THEN v ELSE d[x]]

\* d.update(e)
DictUpdate(d, e) == [x \in DOMAIN d \union DOMAIN e |-> IF x \in DOMAIN e THEN e[x] ELSE d[x]]

EmptyDict == [x \in {} |-> None]

\* CppLanguageElement.normalize_properties: the for loop over properties.items()
RECURSIVE normalize_properties_loop(_, _, _)
normalize_properties_loop_exact(props, items, result) ==
    IF items = <<>> THEN result
    ELSE LET name == Head(items)[1]
             val  == Head(items)[2]
         IN  normalize_properties_loop(props, Tail(items),
                                       IF name \in props THEN DictSet(result, name, val)
                                       ELSE result)

normalize_properties_loop(props, items, result) ==
    IF items = <<>> THEN result
    ELSE LET name   == Head(items)[1]
             val    == Head(items)[2]
             first  == IF name \in props THEN DictSet(result, name, val) ELSE result
             second == IF ("is_" \o name) \in props
                       THEN DictSet(first, "is_" \o name, val) ELSE first
         IN  normalize_properties_loop(props, Tail(items), second)

normalize_properties(props, properties) ==
    normalize_properties_loop(props, properties, EmptyDict)

\* CppLanguageElement.init_properties: the attributes of self afterwards
init_properties(self, props, input_properties_dict, default_property_value) ==
    LET defaults == [name \in {n \in props : n \notin DOMAIN self} |->
                        default_property_value]
    IN  DictUpdate(self, DictUpdate(defaults,
                                    normalize_properties(props, input_properties_dict)))

\* the option names and values a caller passes
OptionNames == {"static", "is_static", "type", "bogus"}

OptionValues == {"True", "int"}

\* the option mappings of at most MaxProps options (a dict has no key twice)
OptionMappings ==
    {m \in UNION {[1..n -> OptionNames \X OptionValues] : n \in 0..MaxProps} :
        \A i, j \in DOMAIN m : i # j => m[i][1] # m[j][1]}

ElementClasses == {"CppVariable", "CppEnum"}

InitProps ==
    /\ out = <<>>
    /\ stack = <<>>
    /\ exc = "none"
    /\ last = [op |-> "none", el |-> NoElem, cpp |-> TheFile]
    /\ elems \in {<<[cls |-> c, attrs |-> ConstructorAttributes(c)]>> : c \in ElementClasses}
    /\ adds = 0

\* self.init_properties(properties), the last statement of __init__
InitProperties(properties) ==
    /\ last.op = "none"
    /\ elems' = [elems EXCEPT ![1].attrs =
                    init_properties(@, PROPERTIES(elems[1].cls), properties, None)]
    /\ last' = [op |-> "init_properties", el |-> 1, cpp |-> TheFile,
                properties |-> properties]
    /\ UNCHANGED <<out, stack, exc, adds>>

NextProps == \E properties \in OptionMappings : InitProperties(properties)

SpecProps == InitProps /\ [][NextProps]_vars

\* the names of the options of a mapping
OptionNamesOf(m) == {m[i][1] : i \in DOMAIN m}

\* C20: after construction from an option mapping, an option named by a
\* recognized property sets it, a bare flag name sets the canonical is_
\* property as passing that name would, an unrecognized name creates no
\* attribute, and every recognized property is defined: with a given value,
\* else the constructor default, else the absent sentinel.
C20_RecognizedPropertiesOnly ==
    last.op = "init_properties" =>
        LET cls   == elems[1].cls
            attrs == elems[1].attrs
            m     == last.properties
            ctor  == ConstructorAttributes(cls)
            given(p) == {i \in DOMAIN m : m[i][1] = p \/ "is_" \o m[i][1] = p}
        IN  /\ exc = "none"
            /\ DOMAIN attrs = DOMAIN ctor \union PROPERTIES(cls)
            /\ \A i \in DOMAIN m :
                  LET n == m[i][1]
                  IN  /\ (n \in PROPERTIES(cls) /\ Cardinality(given(n)) = 1)
                            => attrs[n] = m[i][2]
                      /\ (("is_" \o n) \in PROPERTIES(cls)
                            /\ Cardinality(given("is_" \o n)) = 1)
                            => attrs["is_" \o n] = m[i][2]
                      /\ (n \notin PROPERTIES(cls) /\ n \notin DOMAIN ctor)
                            => n \notin DOMAIN attrs
            /\ \A p \in DOMAIN attrs :
                  \/ \E i \in given(p) : attrs[p] = m[i][2]
                  \/ given(p) = {} /\ p \in DOMAIN ctor /\ attrs[p] = ctor[p]
                  \/ given(p) = {} /\ p \notin DOMAIN ctor /\ attrs[p] = None

\* a variable was constructed with the bare flag `static`, a type and an
\* unrecognized option
C20_Witness ==
    /\ last.op = "init_properties"
    /\ elems[1].cls = "CppVariable"
    /\ OptionNamesOf(last.properties) = {"static", "type", "bogus"}
    /\ elems[1].attrs["is_static"] = "True" /\ elems[1].attrs["type"] = "int"
    /\ "bogus" \notin DOMAIN elems[1].attrs /\ "static" \notin DOMAIN elems[1].attrs

(***************************************************************************)
(* SpecAdd: a caller hands the constructed elements to the add_* calls in  *)
(* any way, also in the ways the construction discipline forbids (an       *)
(* element handed to a second add_* call, or to itself or to a container   *)
(* below it).  No add_* method checks anything; the history record notes   *)
(* whether a forbidden call was made.                                      *)
(***************************************************************************)
\* most add_* calls of such a session
MaxCalls == 2

\* x and the elements up to n parent references above it
RECURSIVE ChainFrom(_, _, _)
ChainFrom(els, x, n) ==
    IF x = NoElem \/ n = 0 THEN {}
    ELSE {x} \union ChainFrom(els, els[x].ref_to_parent, n - 1)

\* the call c.add_*(x) obeys the construction discipline: x was handed to no
\* add_* call before, and is neither c nor above c
Disciplined(c, x) ==
    elems[x].ref_to_parent = NoElem /\ x \notin ChainFrom(elems, c, Len(elems))

InitAdd ==
    /\ out = <<>>
    /\ stack = <<>>
    /\ exc = "none"
    /\ last = [op |-> "none", el |-> NoElem, cpp |-> TheFile, container |-> NoElem,
               caller_error |-> FALSE]
    /\ elems = Universe
    /\ adds = 0

\* the effects of c.add_*(x), els being the element tree after the call
Called(els, c, x) ==
    /\ last.op \in {"none", "add"}
    /\ adds < MaxCalls
    /\ elems' = els
    /\ adds' = adds + 1
    /\ last' = [last EXCEPT !.op = "add", !.el = x, !.container = c,
                            !.caller_error = @ \/ ~Disciplined(c, x)]
    /\ UNCHANGED <<out, stack, exc>>

CallAddEnum(c, x) == Called(add_enum(elems, c, x), c, x)

CallAddVariable(c, x) == Called(add_variable(elems, c, x), c, x)

CallAddArray(c, x) == Called(add_array(elems, c, x), c, x)

CallAddInternalClass(c, x) == Called(add_internal_class(elems, c, x), c, x)

CallAddMethod(c, x) == Called(add_method(elems, c, x), c, x)

CallAddInternalScope(c, x) == Called(add_internal_scope(elems, c, x), c, x)

NextAdd ==
    \/ \E c \in Containers, x \in OfKind("enum") : CallAddEnum(c, x)
    \/ \E c \in Containers, x \in OfKind("var") : CallAddVariable(c, x)
    \/ \E c \in Containers, x \in OfKind("array") : CallAddArray(c, x)
    \/ \E c \in Containers, x \in OfKind("class") : CallAddInternalClass(c, x)
    \/ \E c \in Containers, x \in OfKind("method") : CallAddMethod(c, x)
    \/ \E c \in OfKind("scope"), x \in OfKind("scope") : CallAddInternalScope(c, x)

SpecAdd == InitAdd /\ [][NextAdd]_vars

\* the containers whose member collections list x
ListedIn(els, x) ==
    {c \in DOMAIN els : IsContainer(els[c]) /\ x \in Range(MembersOf(els[c]))}

\* every listed member has the listing container as its parent, so that no
\* element is listed by two containers
MembersHaveParent(els) ==
    /\ \A c \in DOMAIN els :
          IsContainer(els[c]) =>
              \A x \in Range(MembersOf(els[c])) : els[x].ref_to_parent = c
    /\ \A x \in DOMAIN els : Cardinality(ListedIn(els, x)) <= 1

\* C21 as stated: after any sequence of add_* calls, every element listed in
\* a container's member collections has that container as its parent, and no
\* element is listed as a member of two containers.
C21_MembersHaveParentAlways == MembersHaveParent(elems)

\* C21 as amended: an add_* call makes the container the parent of the
\* element and lists the element last in a member collection of the
\* container, whatever was done before; as long as no call broke the
\* construction discipline, every listed member has the listing container as
\* its parent and no element is listed by two containers.
C21_MembersHaveParent ==
    /\ last.op = "add" =>
          /\ elems[last.el].ref_to_parent = last.container
          /\ last.el \in Range(MembersOf(elems[last.container]))
    /\ ~last.caller_error => MembersHaveParent(elems)

\* a variable was added to a class and that class to another class, each
\* element handed to one add_* call
C21_Witness ==
    /\ ~last.caller_error
    /\ \E c \in OfKind("class"), n \in OfKind("class"), v \in OfKind("var") :
          /\ elems[c].internal_class_elements = <<n>> /\ elems[n].ref_to_parent = c
          /\ elems[n].variable_members = <<v>> /\ elems[v].ref_to_parent = n

(***************************************************************************)
(* SpecQualifier: after unchecked add_* calls that nest classes, scopes    *)
(* and a variable, parent_qualifier() is called on an element and runs its *)
(* while loop one iteration at a time.  The call is synchronous: a loop    *)
(* that can make an iteration makes it, and one that has ended returns.    *)
(* The history record keeps the elements the loop has been at: the next    *)
(* value of `parent` depends on `parent` alone, so a loop that comes to an *)
(* element a second time never ends, and the model follows it no further.  *)
(***************************************************************************)
\* x.parent_qualifier(): the two assignments before the loop
QualifierCalled(x) ==
    /\ last.op \in {"none", "add"}
    /\ last' = [op |-> "loop", el |-> x, cpp |-> last.cpp, container |-> last.container,
                caller_error |-> last.caller_error,
                parent |-> elems[x].ref_to_parent, full_parent_qualifier |-> "",
                visited |-> {}]
    /\ UNCHANGED <<out, stack, exc, elems, adds>>

\* while parent: one iteration
QualifierIteration ==
    /\ last.op = "loop"
    /\ last.parent # NoElem
    /\ last.parent \notin last.visited
    /\ LET locals == parent_qualifier_iteration(elems, last.parent, last.full_parent_qualifier)
       IN  last' = [last EXCEPT !.parent = locals.parent,
                                !.full_parent_qualifier = locals.full_parent_qualifier,
                                !.visited = @ \union {last.parent}]
    /\ UNCHANGED <<out, stack, exc, elems, adds>>

\* parent is None: the loop ends and full_parent_qualifier is returned
QualifierReturned ==
    /\ last.op = "loop"
    /\ last.parent = NoElem
    /\ last' = [last EXCEPT !.op = "returned"]
    /\ UNCHANGED <<out, stack, exc, elems, adds>>

NextQualifier ==
    \/ \E c \in Containers, x \in OfKind("class") : CallAddInternalClass(c, x)
    \/ \E c \in OfKind("scope"), x \in OfKind("scope") : CallAddInternalScope(c, x)
    \/ \E c \in Containers, x \in OfKind("var") : CallAddVariable(c, x)
    \/ \E x \in Ids : QualifierCalled(x)
    \/ QualifierIteration
    \/ QualifierReturned

SpecQualifier ==
    InitAdd /\ [][NextQualifier]_vars
    /\ WF_vars(QualifierIteration) /\ WF_vars(QualifierReturned)

\* x is not above itself on its parent chain
ParentChainAcyclic(els, x) == x \notin ChainFrom(els, els[x].ref_to_parent, Len(els))

\* C22 as stated: after any sequence of add_* calls the parent chain of every
\* element is acyclic, and every call of parent_qualifier() returns.
C22_AlwaysTerminates ==
    /\ [](\A x \in Ids : ParentChainAcyclic(elems, x))
    /\ (last.op = "loop") ~> (last.op = "returned")

\* C22 as amended: as long as no add_* call broke the construction
\* discipline, the parent chain of every element is acyclic, every call of
\* parent_qualifier() returns, and it returns the names of the ancestors
\* from the outermost to the parent, each followed by "::".
C22_TerminatesUnderDiscipline ==
    /\ [](~last.caller_error => \A x \in Ids : ParentChainAcyclic(elems, x))
    /\ (last.op = "loop" /\ ~last.caller_error) ~> (last.op = "returned")
    /\ []((last.op = "returned" /\ ~last.caller_error) =>
            last.full_parent_qualifier =
                QualifierOf(elems, AncestorsFrom(elems, elems[last.el].ref_to_parent)))

\* parent_qualifier() of a variable in a class nested in a class returned
C22_Witness ==
    /\ last.op = "returned" /\ ~last.caller_error
    /\ elems[last.el].kind = "var"
    /\ Cardinality(last.visited) = 2
    /\ last.full_parent_qualifier = "Outer::Inner::"

(***************************************************************************)
(* SpecClass: two classes and a labelled scope, with a variable, an array  *)
(* and a method constructed with any combination of properties that passes *)
(* validation.  The caller adds the members to the classes, nests a class  *)
(* in a class or in the scope, tries to add the scope to a class, and      *)
(* renders a class through one of its three entry points.                  *)
(***************************************************************************)
ClassVariables ==
    {v \in {CppVariable("m_var", "size_t", s, c, ce, FALSE, "255") :
                s \in BOOLEAN, c \in BOOLEAN, ce \in BOOLEAN} :
        Var_sanity_check(v) = "none"}

ClassArrays == {CppArray("m_arr", "int", TRUE, FALSE, FALSE, <<"1", "2">>)}

\* the methods that pass validation once they have a parent
ClassMethods ==
    {m \in {[CppMethod("GetVar", "size_t", impl)
                EXCEPT !.is_static = st, !.is_constexpr = ce, !.is_virtual = vi,
                       !.is_pure_virtual = pv] :
                st \in BOOLEAN, ce \in BOOLEAN, vi \in BOOLEAN, pv \in BOOLEAN,
                impl \in {None, "writes"}} :
        Method_sanity_check([m EXCEPT !.ref_to_parent = 1]) = "none"}

InitClass ==
    /\ out = <<>>
    /\ stack = <<>>
    /\ exc = "none"
    /\ last = [op |-> "none", el |-> NoElem, cpp |-> TheFile]
    /\ elems \in {<<CppClass("MyClass", FALSE), CppClass("NestedClass", FALSE),
                    CppClassScope("private"), v, a, m>> :
                    v \in ClassVariables, a \in ClassArrays, m \in ClassMethods}
    /\ adds = 0

\* c.add_internal_scope(x) on a class: CppClass defines no method of that
\* name (only CppClassScope does), so the call raises AttributeError
ClassAddInternalScope(c, x) ==
    /\ last.op = "none"
    /\ exc' = "AttributeError"
    /\ last' = [op |-> "add_internal_scope", el |-> c, cpp |-> TheFile]
    /\ UNCHANGED <<out, stack, elems, adds>>

NextClass ==
    \/ \E c \in OfKind("class"), x \in OfKind("var") : AddVariable(c, x)
    \/ \E c \in OfKind("class"), x \in OfKind("array") : AddArray(c, x)
    \/ \E c \in OfKind("class"), x \in OfKind("method") : AddMethod(c, x)
    \/ \E c \in Containers, x \in OfKind("class") : AddInternalClass(c, x)
    \/ \E c \in OfKind("class"), x \in OfKind("scope") : ClassAddInternalScope(c, x)
    \/ \E c \in OfKind("class"), cpp \in RenderHandles : RenderDeclaration(c, cpp)
    \/ \E c \in OfKind("class"), cpp \in RenderHandles : RenderImplementation(c, cpp)
    \/ \E c \in OfKind("class"), cpp \in RenderHandles : RenderToString(c, cpp)

SpecClass == InitClass /\ [][NextClass]_vars

\* the spellings of the modifiers in front of the type of a variable or array
DeclaratorPrefixes ==
    {s \o c \o ce : s \in {"", "static "}, c \in {"", "const "}, ce \in {"", "constexpr "}}

\* the lines that declare or define member x under the given name, whatever
\* modifiers, initializer and spacing surround the name
LinesNaming(els, x, name) ==
    LET e == els[x]
    IN  CASE e.kind = "var" ->
                {pre \o e.type \o " " \o name \o tail :
                    pre \in DeclaratorPrefixes,
                    tail \in {";", " = " \o ValueText(e) \o ";"}}
          [] e.kind = "array" ->
                {pre \o e.type \o " " \o name \o "[]" \o tail :
                    pre \in DeclaratorPrefixes,
                    tail \in {";", " = {" \o Array_content(e) \o "};"}}
          [] e.kind = "method" ->
                {st \o Method_modifiers_front(e) \o sp \o Method_ret_type(e) \o " " \o name
                 \o "(" \o Method_args(e) \o ")" \o Method_modifiers_back(e) \o pure \o semi :
                    st \in {"", "static"}, sp \in {"", " "}, pure \in {"", " = 0"},
                    semi \in {"", ";"}}
          [] OTHER -> {}

\* the lines of the sink that carry the name of member x: its declaration,
\* its definition, and the line that opens its body
NameLinesOf(x) == LinesOf(x, "decl") \union LinesOf(x, "def") \union LinesOf(x, "open")

\* the variables, arrays and methods that are members of a class
ClassMembers(els) ==
    {x \in DOMAIN els :
        /\ els[x].kind \in {"var", "array", "method"}
        /\ els[x].ref_to_parent # NoElem
        /\ els[els[x].ref_to_parent].kind = "class"}

\* C23: every member name written by the declaration pass of a class, for
\* variables, arrays and methods (constexpr methods, written with their
\* body, included), is the bare name, and every member name written by the
\* definition pass is the fully qualified name.
C23_BareAndQualifiedNames ==
    (last.op \in {"declaration", "implementation"} /\ exc = "none") =>
        \A x \in ClassMembers(elems) : \A i \in NameLinesOf(x) :
            out[i].txt \in LinesNaming(elems, x,
                                       IF last.op = "declaration" THEN elems[x].name
                                       ELSE OutermostFirstName(elems, x))

\* C24: a class accepts a nested scope through add_internal_scope, and the
\* declaration pass of the class writes each nested scope that has something
\* to declare inside the braces of the class, after the class's own
\* members: the label of the scope and its members lie between the last
\* line of a member of the class and the closing line of the class.
C24_ClassAcceptsScope ==
    /\ last.op = "add_internal_scope" =>
          /\ exc = "none"
          /\ \E s \in OfKind("scope") :
                /\ elems[s].ref_to_parent = last.el
                /\ s \in Range(MembersOf(elems[last.el]))
    /\ (DeclarationDone /\ exc = "none" /\ elems[last.el].kind = "class") =>
          \A s \in OfKind("scope") :
              (elems[s].ref_to_parent = last.el /\ MembersOf(elems[s]) # <<>>) =>
                  /\ LinesOf(s, "label") # {}
                  /\ \A i \in LinesOf(s, "label"), j \in 1..Len(out) :
                        /\ out[j].el \in ClassMembers(elems) /\ elems[out[j].el].ref_to_parent = last.el
                              => j < i
                        /\ out[j].el = last.el /\ out[j].role = "close" => i < j

(***************************************************************************)
(* type_base_generator.py: composed types and their names                  *)
(***************************************************************************)
\* the most template arguments a template type is given
MaxArgs == 2

\* an entry of template_args: a raw string, or a reference to a Type
RawArg(s) == [el |-> NoElem, str |-> s]

TypeArg(x) == [el |-> x, str |-> None]

\* CppBaseType(**properties)
CppBaseType(type, is_static, is_extern, is_const, is_constexpr, is_ref) ==
    [kind |-> "type", name |-> None, ref_to_parent |-> NoElem, type |-> type,
     is_static |-> is_static, is_extern |-> is_extern, is_const |-> is_const,
     is_constexpr |-> is_constexpr, is_ref |-> is_ref, template_args |-> <<>>]

\* CppTemplateType(**properties)
CppTemplateType(type, is_const, is_constexpr, template_args) ==
    [CppBaseType(type, FALSE, FALSE, is_const, is_constexpr, FALSE)
        EXCEPT !.kind = "template", !.template_args = template_args]

\* CppBaseType._sanity_check
Type_sanity_check(t) ==
    IF t.is_const /\ t.is_constexpr THEN "ValueError"
    ELSE IF t.is_static /\ t.is_extern THEN "ValueError"
    ELSE "none"

\* CppBaseType._ref
Type_ref(t) == IF t.is_ref THEN "&" ELSE ""

RECURSIVE Type_scoped_name(_, _, _)

\* CppLanguageElement.resolved_name(element, local_scope): a string is its
\* own name, an element is named by its scoped_name(local_scope)
resolved_name(els, element, local_scope) ==
    IF element.el = NoElem THEN [text |-> element.str, err |-> "none"]
    ELSE Type_scoped_name(els, element.el, local_scope)

\* CppBaseType.scoped_name
BaseType_scoped_name(els, self, local_scope) ==
    LET t == els[self]
        s_name == resolved_name(els, RawArg(t.type), local_scope)
    IN  IF Type_sanity_check(t) # "none" THEN [text |-> None, err |-> Type_sanity_check(t)]
        ELSE IF s_name.err # "none" THEN s_name
        ELSE [text |-> JoinNonEmpty(<<Kw(t.is_static, "static"), Kw(t.is_extern, "extern"),
                                      Kw(t.is_const, "const"), Kw(t.is_constexpr, "constexpr"),
                                      s_name.text \o Type_ref(t)>>),
              err |-> "none"]

\* the loop of CppTemplateType.scoped_name over template_args
RECURSIVE TemplateType_args_names(_, _, _)
TemplateType_args_names(els, args, local_scope) ==
    IF args = <<>> THEN [names |-> <<>>, err |-> "none"]
    ELSE LET first == resolved_name(els, Head(args), local_scope)
             rest == TemplateType_args_names(els, Tail(args), local_scope)
         IN  IF first.err # "none" THEN [names |-> <<>>, err |-> first.err]
             ELSE IF rest.err # "none" THEN rest
             ELSE [names |-> <<first.text>> \o rest.names, err |-> "none"]

\* scoped_name with the arguments joined by a comma alone
TemplateType_scoped_name_no_space(els, self, local_scope) ==
    LET t == els[self]
        s_name == resolved_name(els, RawArg(t.type), local_scope)
        t_args_names == TemplateType_args_names(els, t.template_args, local_scope)
    IN  IF Type_sanity_check(t) # "none" THEN [text |-> None, err |-> Type_sanity_check(t)]
        ELSE IF s_name.err # "none" THEN s_name
        ELSE IF t_args_names.err # "none" THEN [text |-> None, err |-> t_args_names.err]
        ELSE [text |-> s_name.text \o "<" \o Join(",", t_args_names.names) \o ">",
              err |-> "none"]

\* CppTemplateType.scoped_name
TemplateType_scoped_name(els, self, local_scope) ==
    LET t == els[self]
        s_name == resolved_name(els, RawArg(t.type), local_scope)
        t_args_names == TemplateType_args_names(els, t.template_args, local_scope)
    IN  IF Type_sanity_check(t) # "none" THEN [text |-> None, err |-> Type_sanity_check(t)]
        ELSE IF s_name.err # "none" THEN s_name
        ELSE IF t_args_names.err # "none" THEN [text |-> None, err |-> t_args_names.err]
        ELSE [text |-> s_name.text \o "<" \o Join(", ", t_args_names.names) \o ">",
              err |-> "none"]

\* x.scoped_name(local_scope), by the class of x
Type_scoped_name(els, x, local_scope) ==
    IF els[x].kind = "template" THEN TemplateType_scoped_name(els, x, local_scope)
    ELSE BaseType_scoped_name(els, x, local_scope)

(***************************************************************************)
(* Types whose scoped_name is asked for                                    *)
(***************************************************************************)
\* the base types: valid and invalid combinations of the qualifiers
TypeBases ==
    {CppBaseType("char", FALSE, FALSE, TRUE, FALSE, FALSE),
     CppBaseType("char", FALSE, FALSE, TRUE, FALSE, TRUE),
     CppBaseType("bool", FALSE, FALSE, FALSE, FALSE, FALSE),
     CppBaseType("int", TRUE, FALSE, FALSE, TRUE, FALSE),
     CppBaseType("int", FALSE, FALSE, TRUE, TRUE, FALSE),
     CppBaseType("char*", TRUE, TRUE, FALSE, FALSE, FALSE)}

\* the lists of at most MaxArgs template arguments over a set of arguments
ArgLists(S) == UNION {[1..n -> S] : n \in 0..MaxArgs}

\* a base type, a template type over it, and a template type over both
InitType ==
    /\ out = <<>>
    /\ stack = <<>>
    /\ exc = "none"
    /\ last = [op |-> "none", el |-> NoElem, local_scope |-> FALSE, result |-> None]
    /\ \E b \in TypeBases, c \in BOOLEAN, ce \in BOOLEAN,
          inner \in ArgLists({RawArg("bool"), TypeArg(1)}),
          outer \in ArgLists({RawArg("bool"), TypeArg(1), TypeArg(2)}) :
          elems = <<b, CppTemplateType("std::vector", c, FALSE, inner),
                    CppTemplateType("std::map", c, ce, outer)>>
    /\ adds = 0

\* x.scoped_name(local_scope) returned or raised
ScopedNameCalled(x, local_scope, r) ==
    /\ last.op = "none"
    /\ exc' = r.err
    /\ last' = [op |-> "scoped_name", el |-> x, local_scope |-> local_scope,
                result |-> r.text]
    /\ UNCHANGED <<out, stack, elems, adds>>

\* a base type is asked for its name
BaseTypeScopedName(x, local_scope) ==
    /\ elems[x].kind = "type"
    /\ ScopedNameCalled(x, local_scope, BaseType_scoped_name(elems, x, local_scope))

\* a template type is asked for its name
TemplateTypeScopedName(x, local_scope) ==
    /\ elems[x].kind = "template"
    /\ ScopedNameCalled(x, local_scope, TemplateType_scoped_name(elems, x, local_scope))

NextType ==
    \/ \E x \in DOMAIN elems, local_scope \in BOOLEAN : BaseTypeScopedName(x, local_scope)
    \/ \E x \in DOMAIN elems, local_scope \in BOOLEAN : TemplateTypeScopedName(x, local_scope)

SpecType == InitType /\ [][NextType]_vars

\* the qualifier words and the base name of a base type, as C++ reads them
QualifiedTypeText(t) ==
    (IF t.is_static THEN "static " ELSE "") \o (IF t.is_extern THEN "extern " ELSE "")
    \o (IF t.is_const THEN "const " ELSE "") \o (IF t.is_constexpr THEN "constexpr " ELSE "")
    \o t.type \o (IF t.is_ref THEN "&" ELSE "")

\* the text a template argument stands for: a raw string itself, a base type
\* with its qualifiers, a template type as its base name and its arguments
RECURSIVE ArgumentText(_, _)
ArgumentText(els, a) ==
    IF a.el = NoElem THEN a.str
    ELSE IF els[a.el].kind = "type" THEN QualifiedTypeText(els[a.el])
    ELSE LET args == els[a.el].template_args
             texts == [i \in 1..Len(args) |-> ArgumentText(els, args[i])]
         IN  els[a.el].type \o "<"
             \o (IF Len(texts) = 0 THEN ""
                 ELSE IF Len(texts) = 1 THEN texts[1]
                 ELSE IF Len(texts) = 2 THEN texts[1] \o ", " \o texts[2]
                 ELSE texts[1] \o ", " \o texts[2] \o ", " \o texts[3])
             \o ">"

FreshView == SourceFile_block("namespace n", TRUE, None)

\* the source file, an entered view, a view that was not entered
AnyHandles == RenderHandles \union {FreshView}

NextAnyHandle ==
    \/ \E c \in Containers, x \in OfKind("enum") : AddEnum(c, x)
    \/ \E c \in Containers, x \in OfKind("var") : AddVariable(c, x)
    \/ \E c \in Containers, x \in OfKind("array") : AddArray(c, x)
    \/ \E c \in Containers, x \in OfKind("class") : AddInternalClass(c, x)
    \/ \E c \in Containers, x \in OfKind("method") : AddMethod(c, x)
    \/ \E c \in OfKind("scope"), x \in OfKind("scope") : AddInternalScope(c, x)
    \/ \E c \in Containers, cpp \in AnyHandles : RenderDeclaration(c, cpp)
    \/ \E c \in Containers, cpp \in AnyHandles : RenderImplementation(c, cpp)

SpecAnyHandle == Init /\ [][NextAnyHandle]_vars

\* C26 as stated: every line of the sink is written at an indent level of
\* at least 0, the labels of a declaration pass included.
C26_NoNegativeLevel == \A i \in 1..Len(out) : out[i].ind >= 0

\* C26: every line of a pass is written at an indent level of at least 0,
\* except the labels of a declaration pass into a formatter view whose own
\* level is 0, which are written at level -1; no line is written deeper
\* below 0 than that.
C26_NegativeOnlyAtLevelZero ==
    \A i \in 1..Len(out) :
        /\ out[i].ind >= -1
        /\ out[i].ind < 0 <=>
              /\ out[i].role = "label"
              /\ last.op = "declaration"
              /\ last.cpp.kind = "view"
              /\ last.cpp.indent_level = 0

\* a declaration pass into an entered view that wrote a label, at level 0,
\* and the members of a nested container
C26_Witness ==
    /\ last.op = "declaration"
    /\ last.cpp = FileView
    /\ exc = "none"
    /\ \E i \in 1..Len(out) : out[i].role = "label" /\ out[i].ind = 0
    /\ \E i \in 1..Len(out) : out[i].el # last.el /\ out[i].role = "label"

\* the lines the body callback of method m wrote
BodyLinesOf(m) == {i \in 1..Len(out) : out[i].el = m /\ out[i].role = "body"}

\* C27: across the declaration pass followed by the definition pass of a
\* class, the body callback of each method of the class that is not pure
\* virtual is invoked exactly once, and the callback of no pure virtual
\* method is invoked.
C27_BodyInvokedOnce ==
    (last.op = "both" /\ exc = "none" /\ elems[last.el].kind = "class") =>
        \A m \in Range(elems[last.el].methods) :
            Cardinality(BodyLinesOf(m)) = IF elems[m].is_pure_virtual THEN 0 ELSE 1

\* the static variables and the arrays of class c and of the classes nested
\* in it at any depth
StaticMembersUnder(els, c) ==
    {x \in DOMAIN els :
        /\ \/ els[x].kind = "var" /\ els[x].is_static
           \/ els[x].kind = "array"
        /\ els[x].ref_to_parent \in {c} \union NestedClasses(els, c)}

\* C28: one definition pass of a class writes the definition line of each
\* static member variable and each static array, of the class itself or of
\* a class nested in it at any depth, exactly once.
C28_StaticDefinedOnce ==
    (ImplementationDone /\ exc = "none" /\ elems[last.el].kind = "class") =>
        \A x \in StaticMembersUnder(elems, last.el) :
            Cardinality(LinesOf(x, "def") \union LinesOf(x, "open")) = 1

(***************************************************************************)
(* Variables constructed with a value, the empty string included           *)
(***************************************************************************)
\* the values a caller provides
ProvidedValues == {"255", ""}

\* CppVariable(name=..., type=..., value=..., **flags)
ValueInputs ==
    {[CppVariable("m_var", "size_t", s, c, ce, ex, val) EXCEPT !.is_class_member = m] :
        s \in BOOLEAN, c \in BOOLEAN, ce \in BOOLEAN, ex \in BOOLEAN, m \in BOOLEAN,
        val \in ProvidedValues}

InitValue ==
    /\ out = <<>>
    /\ stack = <<>>
    /\ exc = "none"
    /\ last = [op |-> "none", el |-> NoElem, cpp |-> TheFile]
    /\ elems \in {<<CppClass("MyClass", TRUE), v>> : v \in ValueInputs}
    /\ adds = 0

SpecValue == InitValue /\ [][NextVar]_vars

\* C30: a variable constructed with a value counts as initialized whatever
\* the value is: render_to_string of a constexpr variable with a provided
\* value, not const and not static and extern at once, does not fail
\* validation, and the statement written carries the provided value as the
\* initializer.
C30_ProvidedValueInitializes ==
    (RenderDone /\ elems[last.el].value # None) =>
        LET v == elems[last.el]
        IN  /\ (v.is_constexpr /\ ~v.is_const /\ ~(v.is_static /\ v.is_extern))
                  => exc # "ValueError"
            /\ (exc = "none" /\ ~v.is_extern) => out[Len(out)].txt = CompleteStatement(v)

(***************************************************************************)
(* Two passes over one tree, each into a fresh sink                        *)
(***************************************************************************)
\* no pass yet
NoPass == [op |-> "none", out |-> <<>>, exc |-> "none"]

InitTwice ==
    /\ out = <<>>
    /\ stack = <<>>
    /\ exc = "none"
    /\ elems \in {Universe, InvalidUniverse}
    /\ last = [op |-> "none", el |-> NoElem, cpp |-> TheFile, tree |-> elems,
               first |-> NoPass]
    /\ adds = 0

\* the render entry points of element c, by name
PassOf(op, els, c, cpp) ==
    CASE op = "declaration"    -> RenderDeclarationOf(els, c, cpp)
      [] op = "implementation" -> RenderImplementationOf(els, c, cpp)
      [] op = "both" /\ els[c].kind = "class" -> Class_render_to_string(els, c, cpp)
      [] op = "both" /\ els[c].kind = "scope" -> Scope_render_to_string(els, c, cpp)
      [] op = "render" -> Enum_render_to_string(els, c, cpp)

\* a render entry point that uses up the name of the element it renders
PassRendered_consuming(op, c, cpp) ==
    /\ last.first.op = "none"
    /\ last.op # "none" => c = last.el
    /\ out' = PassOf(op, elems, c, cpp).out
    /\ exc' = PassOf(op, elems, c, cpp).err
    /\ last' = [op |-> op, el |-> c, cpp |-> cpp,
                tree  |-> IF last.op = "none" THEN elems ELSE last.tree,
                first |-> IF last.op = "none" THEN NoPass
                          ELSE [op |-> last.op, out |-> out, exc |-> exc]]
    /\ elems' = [elems EXCEPT ![c].name = "rendered"]
    /\ UNCHANGED <<stack, adds>>

\* a render entry point of c returned or raised: the first pass over the
\* tree, or a second pass over the same element into a fresh sink; the
\* entry points assign to no attribute of any element
PassRendered(op, c, cpp) ==
    /\ last.first.op = "none"
    /\ last.op # "none" => c = last.el
    /\ out' = PassOf(op, elems, c, cpp).out
    /\ exc' = PassOf(op, elems, c, cpp).err
    /\ last' = [op |-> op, el |-> c, cpp |-> cpp,
                tree  |-> IF last.op = "none" THEN elems ELSE last.tree,
                first |-> IF last.op = "none" THEN NoPass
                          ELSE [op |-> last.op, out |-> out, exc |-> exc]]
    /\ UNCHANGED <<stack, elems, adds>>

\* the trees passed over twice are built with one add_* call fewer than a
\* session allows
BeforeLastAdd == adds + 1 < MaxAdds

NextTwice ==
    \/ \E c \in Containers, x \in OfKind("enum") : BeforeLastAdd /\ AddEnum(c, x)
    \/ \E c \in Containers, x \in OfKind("var") : BeforeLastAdd /\ AddVariable(c, x)
    \/ \E c \in Containers, x \in OfKind("array") : BeforeLastAdd /\ AddArray(c, x)
    \/ \E c \in Containers, x \in OfKind("class") : BeforeLastAdd /\ AddInternalClass(c, x)
    \/ \E c \in Containers, x \in OfKind("method") : BeforeLastAdd /\ AddMethod(c, x)
    \/ \E c \in OfKind("scope"), x \in OfKind("scope") : BeforeLastAdd /\ AddInternalScope(c, x)
    \/ \E c \in Containers : PassRendered("declaration", c, TheFile)
    \/ \E c \in Containers : PassRendered("implementation", c, TheFile)
    \/ \E c \in Containers : PassRendered("both", c, TheFile)
    \/ \E e \in OfKind("enum") : PassRendered("render", e, TheFile)

SpecTwice == InitTwice /\ [][NextTwice]_vars

====
